---------------------------- MODULE Spec2Model ----------------------------
(***************************************************************************)
(* MaestroAI <-> Stepflow conversion layer (shared/src/stepflow.ts,        *)
(* shared/src/stepflowSchema.ts).                                          *)
(*                                                                         *)
(* A workflow graph is validated (validateForStepflow), compiled to a      *)
(* Stepflow document (convertToStepflow), the document is checked by the   *)
(* import validator (validateStepflowImport) and reconstructed into a      *)
(* graph (convertFromStepflow).  A document may also arrive from outside   *)
(* (POST /stepflow/import) and go through the last two steps only.         *)
(*                                                                         *)
(* Strings that the code inspects character by character (node ids) are    *)
(* sequences of one-character strings; template strings are sequences of   *)
(* lexical tokens.                                                         *)
(***************************************************************************)
EXTENDS Integers, Sequences, FiniteSets, TLC

VARIABLES workflow, pc, validation, stepflow, importResult, reimported,
          expression, executionContext, evaluation,
          request, calls, db, response,
          queryData, queryPath, queried,
          components, plugins, mcpServers, found, registryCalls,
          startNodeId, queue, executedNodes, recorded, started, stored, emitted, turns,
          analysis

convVars == <<workflow, validation, stepflow, importResult, reimported>>
evalVars == <<expression, executionContext, evaluation>>
serverVars == <<request, calls, db, response>>
queryVars == <<queryData, queryPath, queried>>
registryVars == <<components, plugins, mcpServers, found, registryCalls>>
executorVars ==
    <<startNodeId, queue, executedNodes, recorded, started, stored, emitted, turns>>
otherVars == <<queryVars, registryVars, executorVars, analysis>>
vars == <<pc, convVars, evalVars, serverVars, otherVars>>

(***************************************************************************)
(* Bounds.                                                                 *)
(***************************************************************************)
MaxEdges == 2

MaxSteps == 2

(***************************************************************************)
(* Characters.                                                             *)
(***************************************************************************)
Digits == {"0", "1", "2", "3", "4", "5", "6", "7", "8", "9"}

Letters == {"a", "b", "c", "i", "n", "o", "p", "t", "u", "x"}

\* the character class [a-zA-Z0-9_] (also \w)
WordChars == Letters \cup Digits \cup {"_"}

\* generic sequence helpers
SeqToSet(s) == {s[i] : i \in 1..Len(s)}

RECURSIVE Flatten(_)
Flatten(ss) == IF ss = <<>> THEN <<>> ELSE Head(ss) \o Flatten(Tail(ss))

\* id.replace(/[^a-zA-Z0-9_]/g, '_')
ReplaceNonWord(id) == [i \in 1..Len(id) |-> IF id[i] \in WordChars THEN id[i] ELSE "_"]

\* .replace(/^[0-9]/, '_$&')
PrefixDigit(id) == IF Len(id) > 0 /\ id[1] \in Digits THEN <<"_">> \o id ELSE id

sanitizeId(id) == PrefixDigit(ReplaceNonWord(id))

\* the identifier grammar ^[a-zA-Z_][a-zA-Z0-9_]*$
MatchesIdGrammar(id) ==
    /\ Len(id) >= 1
    /\ id[1] \in Letters \cup {"_"}
    /\ \A i \in 1..Len(id) : id[i] \in WordChars

\* s.replace(/^_/, '')
StripLeadingUnderscore(id) == IF Len(id) > 0 /\ id[1] = "_" THEN Tail(id) ELSE id


\* /^\w+$/
IsWord(id) == Len(id) >= 1 /\ \A i \in 1..Len(id) : id[i] \in WordChars

(***************************************************************************)
(* Template strings, as token sequences.  A token is one of                *)
(*   open  "{{"      close "}}"      bs  "\"      ws  one blank            *)
(*   txt   a run of text without braces, backslashes or outer blanks       *)
(*   noderef     the text nodes.<v>.output, or nodes.<v>.output.<f>        *)
(*   stepmarker  the text {{$step.<v>}}    inputmarker  the text {{$input}}*)
(* Node ids named in a noderef contain no dot.                             *)
(***************************************************************************)
Tok(k) == [k |-> k, v |-> <<>>, f |-> ""]

Txt(s) == [k |-> "txt", v |-> <<s>>, f |-> ""]

NodeRef(id) == [k |-> "noderef", v |-> id, f |-> ""]

NodeField(id, field) == [k |-> "noderef", v |-> id, f |-> field]

StepMarker(id) == [k |-> "stepmarker", v |-> id, f |-> ""]

InputMarker == [k |-> "inputmarker", v |-> <<>>, f |-> ""]

\* texts that start with "$"
DollarTexts == {"$input"}

(***************************************************************************)
(* Value expressions (StepflowInputValue).  toks carries the text of a     *)
(* string, $template or $literal; path the text after "$." of a path.      *)
(***************************************************************************)
Str(toks) == [tag |-> "string", id |-> <<>>, path |-> <<>>, toks |-> toks]

StepRef(id) == [tag |-> "$step", id |-> id, path |-> <<>>, toks |-> <<>>]

StepPath(id, path) == [tag |-> "$step", id |-> id, path |-> path, toks |-> <<>>]

InputRef == [tag |-> "$input", id |-> <<"$">>, path |-> <<>>, toks |-> <<>>]

Template(toks) == [tag |-> "$template", id |-> <<>>, path |-> <<>>, toks |-> toks]

Literal(toks) == [tag |-> "$literal", id |-> <<>>, path |-> <<>>, toks |-> toks]

\* a number or boolean, by its text
Scalar(s) == [tag |-> "scalar", id |-> <<>>, path |-> <<>>, toks |-> <<Txt(s)>>]

\* one entry of a step's input, key being the path of the value inside it
\* (<<"messages", "1", "content">> is input.messages[1].content)
Entry(key, val) == [key |-> key, val |-> val]

(***************************************************************************)
(* interpolateTemplate                                                     *)
(***************************************************************************)
Min(S) == CHOOSE x \in S : \A y \in S : x <= y

\* String.prototype.trim
RECURSIVE TrimLeft(_)
TrimLeft(t) == IF t # <<>> /\ Head(t).k = "ws" THEN TrimLeft(Tail(t)) ELSE t

RECURSIVE TrimRight(_)
TrimRight(t) ==
    IF t # <<>> /\ t[Len(t)].k = "ws" THEN TrimRight(SubSeq(t, 1, Len(t) - 1)) ELSE t

Trim(t) == TrimRight(TrimLeft(t))

\* template.includes('{{')
IncludesOpen(t) == \E i \in 1..Len(t) : t[i].k = "open"

\* [...template.matchAll(/\{\{\s*(.*?)\s*\}\}/g)]: each match runs from a "{{"
\* to the first "}}" after it, the scan resuming after the match
RECURSIVE HandlebarsMatches(_, _)
HandlebarsMatches(t, start) ==
    LET opens == {i \in start..Len(t) :
                     /\ t[i].k = "open"
                     /\ \E j \in (i + 1)..Len(t) : t[j].k = "close"}
    IN  IF opens = {} THEN <<>>
        ELSE LET i == Min(opens)
                 j == Min({j \in (i + 1)..Len(t) : t[j].k = "close"})
             IN  <<[from |-> i, to |-> j]>> \o HandlebarsMatches(t, j + 1)

\* number of blanks at the head of t
RECURSIVE LeadingWs(_)
LeadingWs(t) == IF t # <<>> /\ Head(t).k = "ws" THEN 1 + LeadingWs(Tail(t)) ELSE 0

\* nodes\.(\w+)\.output
IsOutputRef(tok) == tok.k = "noderef" /\ tok.f = "" /\ IsWord(tok.v)

\* input
IsInputWord(tok) == tok = Txt("input")

\* the text between the braces of one of the two replace patterns
IsCore(pattern, tok) ==
    IF pattern = "nodes" THEN IsOutputRef(tok) ELSE IsInputWord(tok)

\* the length of a match of  \{\{\s*<core>\s*\}\}  at the head of t (0: no match),
\* core being one token
BraceMatchLen(t, pattern) ==
    IF t = <<>> \/ Head(t).k # "open" THEN 0
    ELSE LET a == LeadingWs(Tail(t))
             c == 2 + a
         IN  IF c > Len(t) \/ ~IsCore(pattern, t[c]) THEN 0
             ELSE LET b == LeadingWs(SubSeq(t, c + 1, Len(t)))
                      e == c + b + 1
                  IN  IF e <= Len(t) /\ t[e].k = "close" THEN e ELSE 0

\* converted.replace(/\{\{\s*nodes\.(\w+)\.output\s*\}\}/g, '{{$step.$1}}')
RECURSIVE ReplaceNodeRefs(_)
ReplaceNodeRefs(t) ==
    IF t = <<>> THEN <<>>
    ELSE LET n == BraceMatchLen(t, "nodes")
         IN  IF n > 0
             THEN <<StepMarker(t[2 + LeadingWs(Tail(t))].v)>>
                      \o ReplaceNodeRefs(SubSeq(t, n + 1, Len(t)))
             ELSE <<Head(t)>> \o ReplaceNodeRefs(Tail(t))

\* converted.replace(/\{\{\s*input\s*\}\}/g, '{{$input}}')
RECURSIVE ReplaceInputRefs(_)
ReplaceInputRefs(t) ==
    IF t = <<>> THEN <<>>
    ELSE LET n == BraceMatchLen(t, "input")
         IN  IF n > 0
             THEN <<InputMarker>> \o ReplaceInputRefs(SubSeq(t, n + 1, Len(t)))
             ELSE <<Head(t)>> \o ReplaceInputRefs(Tail(t))

\* converted.includes('{{$')
IncludesBraceDollar(t) ==
    \E i \in 1..Len(t) :
        \/ t[i].k \in {"stepmarker", "inputmarker"}
        \/ /\ t[i].k = "open"
           /\ i < Len(t)
           /\ t[i + 1].k = "txt"
           /\ t[i + 1].v[1] \in DollarTexts

\* the single-reference branch: the native expression of expr, or "none"
NativeExpr(expr) ==
    IF expr = <<Txt("input")>> THEN InputRef
    ELSE IF Len(expr) = 1 /\ IsOutputRef(expr[1]) THEN StepRef(sanitizeId(expr[1].v))
    ELSE IF /\ Len(expr) >= 1
            /\ expr[1].k = "noderef"
            /\ expr[1].f # ""
            /\ IsWord(expr[1].v)
         THEN StepPath(sanitizeId(expr[1].v), <<Txt(expr[1].f)>> \o Tail(expr))
    ELSE Str(<<>>)

\* the prepend of the first upstream reference, and the $template returned
PrependUpstream(converted, incomingEdges) ==
    IF incomingEdges # <<>> /\ ~IncludesBraceDollar(converted)
    THEN Template(<<StepMarker(sanitizeId(incomingEdges[1].source)), Tok("ws")>>
                      \o converted)
    ELSE Template(converted)

\* the mixed-content branch
MixedTemplate(template, incomingEdges) ==
    PrependUpstream(ReplaceInputRefs(ReplaceNodeRefs(template)), incomingEdges)

\* a single-reference branch that never returns
AlwaysMixed(native, template, incomingEdges) ==
    MixedTemplate(template, incomingEdges)

\* the return of the single-reference branch when native is an expression, the
\* fall through to the mixed-content branch when it is none
NativeOrMixed(native, template, incomingEdges) ==
    IF native.tag # "string" THEN native ELSE MixedTemplate(template, incomingEdges)

\* interpolateTemplate from its matches on
InterpolateMatches(template, incomingEdges, matches) ==
    IF matches = <<>> THEN Str(template)
    ELSE IF /\ Len(matches) = 1
            /\ Trim(template) = SubSeq(template, matches[1].from, matches[1].to)
         THEN NativeOrMixed(NativeExpr(Trim(SubSeq(template, matches[1].from + 1,
                                                  matches[1].to - 1))),
                            template, incomingEdges)
         ELSE MixedTemplate(template, incomingEdges)

interpolateTemplate(template, incomingEdges) ==
    IF ~IncludesOpen(template) THEN Str(template)
    ELSE InterpolateMatches(template, incomingEdges, HandlebarsMatches(template, 1))


(***************************************************************************)
(* Workflow graphs.  A node is [id, type, config]; config carries the      *)
(* fields the converters read: model (a model id split after its provider  *)
(* prefix, <<>> when absent), systemPrompt, userPrompt, prompt (token       *)
(* sequences, <<>> when absent or empty).  An edge is [source, target].     *)
(***************************************************************************)
\* defined: node.data.config is an object
Config(model, systemPrompt, userPrompt) ==
    [defined |-> TRUE, model |-> model, systemPrompt |-> systemPrompt,
     userPrompt |-> userPrompt, prompt |-> <<>>]

NoConfig == Config(<<>>, <<>>, <<>>)

\* node.data.config is undefined
UndefinedConfig == [NoConfig EXCEPT !.defined = FALSE]

Node(id, type, config) == [id |-> id, type |-> type, config |-> config]

Edge(source, target) == [source |-> source, target |-> target]

\* MODEL_PROVIDER_PREFIXES, in order
MODEL_PROVIDER_PREFIXES ==
    << [prefix |-> "gpt-",     component |-> <<"builtin", "openai">>],
       [prefix |-> "o1-",      component |-> <<"builtin", "openai">>],
       [prefix |-> "o3-",      component |-> <<"builtin", "openai">>],
       [prefix |-> "claude-",  component |-> <<"stepflow-anthropic", "anthropic">>],
       [prefix |-> "command-", component |-> <<"stepflow-cohere", "cohere">>],
       [prefix |-> "c4ai-",    component |-> <<"stepflow-cohere", "cohere">>],
       [prefix |-> "local/",   component |-> <<"python", "local_llm">>],
       [prefix |-> "ollama/",  component |-> <<"python", "local_llm">>] >>

\* a component path is the sequence of its segments
resolveModelComponent(modelId) ==
    LET hits == {i \in 1..Len(MODEL_PROVIDER_PREFIXES) :
                    modelId # <<>> /\ modelId[1] = MODEL_PROVIDER_PREFIXES[i].prefix}
    IN  IF hits # {} THEN MODEL_PROVIDER_PREFIXES[Min(hits)].component
        ELSE <<"builtin", "openai">>

\* config.model || 'gpt-4'
ModelOrDefault(config) == IF config.model = <<>> THEN <<"gpt-", "4">> ELSE config.model

\* the digits of a small array index
IndexText(i) == CASE i = 0 -> "0" [] i = 1 -> "1" [] i = 2 -> "2" [] i = 3 -> "3"
                  [] i = 4 -> "4" [] i = 5 -> "5" [] OTHER -> "n"

Step(id, component, input) == [id |-> id, component |-> component, input |-> input]

convertInputNode(node) ==
    Step(sanitizeId(node.id), <<"builtin", "input">>,
         << Entry(<<"input_type">>, Str(<<Txt("text")>>)),
            Entry(<<"required">>, Scalar("false")),
            Entry(<<"description">>, Str(<<Txt("User input")>>)) >>)

convertOutputNode(node, incomingEdges) ==
    Step(sanitizeId(node.id), <<"builtin", "output">>,
         << Entry(<<"format">>, Str(<<Txt("json")>>)) >>
         \o (IF Len(incomingEdges) > 0
             THEN << Entry(<<"value">>, StepRef(sanitizeId(incomingEdges[1].source))) >>
             ELSE <<>>))

\* the messages array: the system message when config.systemPrompt is truthy,
\* then the user message
PromptMessages(config, incomingEdges) ==
    (IF config.systemPrompt # <<>>
     THEN << [role |-> "system",
              content |-> interpolateTemplate(config.systemPrompt, incomingEdges)] >>
     ELSE <<>>)
    \o << [role |-> "user",
           content |-> interpolateTemplate(config.userPrompt, incomingEdges)] >>

\* the entries of input.messages
MessageEntries(messages) ==
    Flatten([i \in 1..Len(messages) |->
                << Entry(<<"messages", IndexText(i - 1), "role">>,
                         Str(<<Txt(messages[i].role)>>)),
                   Entry(<<"messages", IndexText(i - 1), "content">>,
                         messages[i].content) >>])

\* the input of the step, model being config.model || 'gpt-4'
PromptInput(model, messages) ==
    << Entry(<<"model">>, Str([i \in 1..Len(model) |-> Txt(model[i])])) >>
    \o MessageEntries(messages)
    \o << Entry(<<"temperature">>, Scalar("0.7")),
          Entry(<<"max_tokens">>, Scalar("2048")),
          Entry(<<"top_p">>, Scalar("1.0")),
          Entry(<<"frequency_penalty">>, Scalar("0")),
          Entry(<<"presence_penalty">>, Scalar("0")) >>

convertPromptNode(node, incomingEdges) ==
    Step(sanitizeId(node.id), resolveModelComponent(ModelOrDefault(node.config)),
         PromptInput(ModelOrDefault(node.config),
                     PromptMessages(node.config, incomingEdges)))

convertBranchNode(node) ==
    Step(sanitizeId(node.id), <<"builtin", "conditional">>,
         << Entry(<<"condition">>, Str(<<Txt("true")>>)),
            Entry(<<"branches", "0", "id">>, Str(<<Txt("true")>>)),
            Entry(<<"branches", "0", "label">>, Str(<<Txt("True")>>)),
            Entry(<<"branches", "0", "condition">>, Str(<<Txt("true")>>)) >>)

convertAggregateNode(node, incomingEdges) ==
    Step(sanitizeId(node.id), <<"builtin", "aggregate">>,
         << Entry(<<"strategy">>, Str(<<Txt("concat")>>)),
            Entry(<<"separator">>, Str(<<Txt("\\n")>>)) >>
         \o [i \in 1..Len(incomingEdges) |->
                Entry(<<"inputs", IndexText(i - 1)>>,
                      StepRef(sanitizeId(incomingEdges[i].source)))])

convertHumanGateNode(node, incomingEdges) ==
    Step(sanitizeId(node.id), <<"builtin", "pause">>,
         << Entry(<<"instructions">>, Str(<<Txt("Please review and approve")>>)),
            Entry(<<"allow_edit">>, Scalar("true")) >>
         \o (IF Len(incomingEdges) > 0
             THEN << Entry(<<"value">>, StepRef(sanitizeId(incomingEdges[1].source))) >>
             ELSE <<>>))

\* config.models is absent: the two default models
CompareBranches(prompt) ==
    << Entry(<<"branches", "0", "component">>, Str(<<Txt("/builtin/openai")>>)),
       Entry(<<"branches", "0", "input", "model">>, Str(<<Txt("gpt-4")>>)),
       Entry(<<"branches", "0", "input", "messages", "0", "content">>, prompt),
       Entry(<<"branches", "1", "component">>,
             Str(<<Txt("/stepflow-anthropic/anthropic")>>)),
       Entry(<<"branches", "1", "input", "model">>, Str(<<Txt("claude-3-opus")>>)),
       Entry(<<"branches", "1", "input", "messages", "0", "content">>, prompt) >>

convertModelCompareNode(node, incomingEdges) ==
    Step(sanitizeId(node.id), <<"builtin", "parallel">>,
         CompareBranches(interpolateTemplate(node.config.prompt, incomingEdges)))

NodeTypes == {"input", "output", "prompt", "branch", "aggregate", "human_gate",
              "model_compare"}

\* a step returned
Converted(step) == [thrown |-> "", names |-> {}, step |-> step]

\* an error thrown; names holds the texts the message is built from
Failed(error, names) == [thrown |-> error, names |-> names, step |-> Step(<<>>, <<>>, <<>>)]

\* throw new Error(`Unsupported node type: ${node.type}`)
UnsupportedNodeType(node) == Failed("Unsupported node type", {<<node.type>>})

\* the result of convertNodeToStep: a step, or the error thrown.  Every
\* converter but convertOutputNode reads a property of config.
convertNodeToStep(node, incomingEdges) ==
    CASE node.type \notin NodeTypes -> UnsupportedNodeType(node)
      [] node.type = "output"        -> Converted(convertOutputNode(node, incomingEdges))
      [] ~node.config.defined        -> Failed("TypeError", {})
      [] node.type = "input"         -> Converted(convertInputNode(node))
      [] node.type = "prompt"        -> Converted(convertPromptNode(node, incomingEdges))
      [] node.type = "branch"        -> Converted(convertBranchNode(node))
      [] node.type = "aggregate"     -> Converted(convertAggregateNode(node, incomingEdges))
      [] node.type = "human_gate"    -> Converted(convertHumanGateNode(node, incomingEdges))
      [] OTHER -> Converted(convertModelCompareNode(node, incomingEdges))


(***************************************************************************)
(* convertToStepflow                                                       *)
(***************************************************************************)
\* incomingEdges.get(id) || []
IncomingEdges(wf, id) == LET To(e) == e.target = id IN SelectSeq(wf.edges, To)

\* workflow.nodes.find(n => n.id === id), as the sequence of zero or one node
FindNode(wf, id) ==
    LET hits == {i \in 1..Len(wf.nodes) : wf.nodes[i].id = id}
    IN  IF hits = {} THEN <<>> ELSE <<wf.nodes[Min(hits)]>>

\* st is [steps, processed, thrown, names]; stack holds the ids of the calls of
\* processNode in progress.  A call for a node already on the stack never
\* returns: the recursion ends in the engine's RangeError.
\* steps.push(step); processedNodes.add(node.id), r being the result of
\* convertNodeToStep
PushStep(st, nodeId, r) ==
    IF st.thrown # "" THEN st
    ELSE IF r.thrown # "" THEN [st EXCEPT !.thrown = r.thrown, !.names = r.names]
    ELSE [st EXCEPT !.steps = Append(@, r.step), !.processed = @ \cup {nodeId}]

RECURSIVE processNode(_, _, _, _)
RECURSIVE processWithDeps(_, _, _, _, _)
RECURSIVE processDeps(_, _, _, _, _)
processNode(wf, node, st, stack) ==
    IF st.thrown # "" THEN st
    ELSE IF node.id \in st.processed THEN st
    ELSE IF node.id \in stack THEN [st EXCEPT !.thrown = "RangeError"]
    ELSE processWithDeps(wf, node, IncomingEdges(wf, node.id), st, stack)

\* processNode from deps on
processWithDeps(wf, node, deps, st, stack) ==
    PushStep(IF \A i \in 1..Len(deps) : deps[i].source \in st.processed THEN st
             ELSE processDeps(wf, deps, 1, st, stack \cup {node.id}),
             node.id, convertNodeToStep(node, deps))

processDeps(wf, deps, k, st, stack) ==
    IF k > Len(deps) \/ st.thrown # "" THEN st
    ELSE LET depNode == FindNode(wf, deps[k].source)
         IN  processDeps(wf, deps, k + 1,
                         IF depNode # <<>> THEN processNode(wf, depNode[1], st, stack)
                         ELSE st,
                         stack)

\* for (const node of nodes) processNode(node)
RECURSIVE processAll(_, _, _, _)
processAll(wf, nodes, k, st) ==
    IF k > Len(nodes) THEN st
    ELSE processAll(wf, nodes, k + 1, processNode(wf, nodes[k], st, {}))

\* nodes without incoming edges
InputNodes(wf) == LET Source(n) == IncomingEdges(wf, n.id) = <<>> IN SelectSeq(wf.nodes, Source)

\* nodes without outgoing edges, or of type output
OutputNodes(wf) ==
    LET Terminal(n) == (\A i \in 1..Len(wf.edges) : wf.edges[i].source # n.id)
                          \/ n.type = "output"
    IN  SelectSeq(wf.nodes, Terminal)

\* the keys of an object filled in the order of ids, a key assigned twice staying
\* where it was first inserted
RECURSIVE DistinctKeys(_)
DistinctKeys(ids) ==
    IF ids = <<>> THEN <<>>
    ELSE LET front == DistinctKeys(SubSeq(ids, 1, Len(ids) - 1))
             last == ids[Len(ids)]
         IN  IF last \in SeqToSet(front) THEN front ELSE Append(front, last)

\* properties of generateInputSchema: one per node handed in, keyed by node id
generateInputSchema(inputNodes) ==
    DistinctKeys([i \in 1..Len(inputNodes) |-> inputNodes[i].id])

\* the flow-level output: the entries of result.output
FlowOutput(outputNodes) ==
    IF Len(outputNodes) = 1
    THEN << Entry(<<>>, StepRef(sanitizeId(outputNodes[1].id))) >>
    ELSE LET keys == DistinctKeys([i \in 1..Len(outputNodes) |->
                                      sanitizeId(outputNodes[i].id)])
         IN  [i \in 1..Len(keys) |-> Entry(keys[i], StepRef(keys[i]))]

NoDocument ==
    [thrown |-> "", names |-> {}, name |-> "", steps |-> <<>>, hasSchemas |-> FALSE,
     schemaProps |-> <<>>, output |-> <<>>]

\* the result built from the steps collected (st), or the error thrown
StepflowResult(wf, inputNodes, st) ==
    IF st.thrown # "" THEN [NoDocument EXCEPT !.thrown = st.thrown, !.names = st.names]
    ELSE IF \E i \in 1..Len(inputNodes) : ~inputNodes[i].config.defined
    THEN [NoDocument EXCEPT !.thrown = "TypeError"]
    ELSE [thrown |-> "",
          names |-> {},
          name |-> wf.name,
          steps |-> st.steps,
          hasSchemas |-> Len(inputNodes) > 0,
          schemaProps |-> generateInputSchema(inputNodes),
          output |-> FlowOutput(OutputNodes(wf))]

\* the document returned, or the error thrown (thrown # ""): the loop over
\* inputNodes, then the loop over workflow.nodes
convertToStepflow(wf) ==
    StepflowResult(wf, InputNodes(wf),
                   processAll(wf, InputNodes(wf) \o wf.nodes, 1,
                              [steps |-> <<>>, processed |-> {}, thrown |-> "",
                               names |-> {}]))

(***************************************************************************)
(* validateForStepflow                                                     *)
(***************************************************************************)
\* a hasCycle that returns without recursionStack.delete(nodeId)
LeaveNodeKeep(nodeId, st) == st

\* recursionStack.delete(nodeId)
LeaveNode(nodeId, st) == [st EXCEPT !.recursionStack = @ \ {nodeId}]

\* st is [visited, recursionStack, found]
RECURSIVE hasCycle(_, _, _)
RECURSIVE hasCycleEdges(_, _, _, _, _)
hasCycle(nodeId, edges, st) ==
    LET entered == [st EXCEPT !.visited = @ \cup {nodeId},
                              !.recursionStack = @ \cup {nodeId}]
        From(e) == e.source = nodeId
        after == hasCycleEdges(nodeId, SelectSeq(edges, From), 1, edges, entered)
    IN  IF after.found THEN after ELSE LeaveNode(nodeId, after)

hasCycleEdges(nodeId, outgoingEdges, k, edges, st) ==
    IF k > Len(outgoingEdges) THEN st
    ELSE LET target == outgoingEdges[k].target
         IN  IF target \notin st.visited
             THEN LET sub == hasCycle(target, edges, st)
                  IN  IF sub.found THEN sub
                      ELSE hasCycleEdges(nodeId, outgoingEdges, k + 1, edges, sub)
             ELSE IF target \in st.recursionStack THEN [st EXCEPT !.found = TRUE]
             ELSE hasCycleEdges(nodeId, outgoingEdges, k + 1, edges, st)

\* the loop over workflow.nodes: the errors pushed (at most one, then break)
RECURSIVE CycleErrors(_, _, _)
CycleErrors(wf, k, st) ==
    IF k > Len(wf.nodes) THEN <<>>
    ELSE IF wf.nodes[k].id \in st.visited THEN CycleErrors(wf, k + 1, st)
    ELSE LET r == hasCycle(wf.nodes[k].id, wf.edges, st)
         IN  IF r.found
             THEN << [kind |-> "cycle", node |-> wf.nodes[k].id] >>
             ELSE CycleErrors(wf, k + 1, r)

\* the loop over prompt nodes: one error per prompt node without a model
ModelErrors(wf) ==
    LET NoModel(n) == n.type = "prompt" /\ n.config.model = <<>>
        bad == SelectSeq(wf.nodes, NoModel)
    IN  [i \in 1..Len(bad) |-> [kind |-> "model", node |-> bad[i].id]]

\* config.model is read of every prompt node: a TypeError when config is
\* undefined
ReadsModelOfUndefined(wf) ==
    \E i \in 1..Len(wf.nodes) :
        wf.nodes[i].type = "prompt" /\ ~wf.nodes[i].config.defined

\* the object returned (thrown = ""), or the error thrown
validateForStepflow(wf) ==
    IF ReadsModelOfUndefined(wf)
    THEN [valid |-> FALSE, errors |-> <<>>, thrown |-> "TypeError"]
    ELSE LET errors == CycleErrors(wf, 1, [visited |-> {}, recursionStack |-> {},
                                           found |-> FALSE])
                       \o ModelErrors(wf)
         IN  [valid |-> Len(errors) = 0, errors |-> errors, thrown |-> ""]


(***************************************************************************)
(* validateStepflowImport: the issues of stepflowWorkflowSchema.safeParse  *)
(* on a document whose values have the shapes above (every such value is   *)
(* accepted by stepflowValueExpr, so only the length constraints can fail) *)
(***************************************************************************)
\* names: the step ids the message text mentions (none in any message of the schema)
Issue(path, message) == [path |-> path, message |-> message, names |-> {}]

StepIssues(steps, i) ==
    (IF steps[i].id = <<>>
     THEN << Issue(<<"steps", IndexText(i - 1), "id">>, "Step id cannot be empty") >>
     ELSE <<>>)
    \o (IF steps[i].component = <<>>
        THEN << Issue(<<"steps", IndexText(i - 1), "component">>,
                      "Step component cannot be empty") >>
        ELSE <<>>)

stepflowWorkflowSchema(data) ==
    (IF data.name = "" THEN << Issue(<<"name">>, "Workflow name is required") >> ELSE <<>>)
    \o Flatten([i \in 1..Len(data.steps) |-> StepIssues(data.steps, i)])
    \o (IF Len(data.steps) < 1
        THEN << Issue(<<"steps">>, "Workflow must have at least one step") >>
        ELSE <<>>)

validateStepflowImport(data) ==
    LET issues == stepflowWorkflowSchema(data)
    IN  [valid |-> issues = <<>>, errors |-> issues, thrown |-> ""]

(***************************************************************************)
(* convertFromStepflow                                                     *)
(***************************************************************************)
\* the keywords of convertStepToNode that occur inside a path segment
KeywordsIn(segment) ==
    CASE segment = "input"       -> {"input"}
      [] segment = "output"      -> {"output"}
      [] segment = "conditional" -> {"conditional"}
      [] segment = "aggregate"   -> {"aggregate"}
      [] segment = "pause"       -> {"pause"}
      [] segment = "parallel"    -> {"parallel"}
      [] OTHER                   -> {}

\* component.includes(keyword)
ComponentIncludes(component, keyword) ==
    \E i \in 1..Len(component) : keyword \in KeywordsIn(component[i])

InferType(component) ==
    IF ComponentIncludes(component, "input") THEN "input"
    ELSE IF ComponentIncludes(component, "output") THEN "output"
    ELSE IF ComponentIncludes(component, "conditional") THEN "branch"
    ELSE IF ComponentIncludes(component, "aggregate") THEN "aggregate"
    ELSE IF ComponentIncludes(component, "pause") \/ ComponentIncludes(component, "human")
         THEN "human_gate"
    ELSE IF ComponentIncludes(component, "parallel") THEN "model_compare"
    ELSE "prompt"

\* the content of messages.find(m => m.role === role), as zero or one value
MessageContent(input, role) ==
    LET hits == {i \in 1..Len(input) :
                    /\ Len(input[i].key) = 3
                    /\ input[i].key[1] = "messages"
                    /\ input[i].key[3] = "role"
                    /\ input[i].val = Str(<<Txt(role)>>)}
    IN  IF hits = {} THEN <<>>
        ELSE LET idx == input[Min(hits)].key[2]
                 cs == {j \in 1..Len(input) : input[j].key = <<"messages", idx, "content">>}
             IN  IF cs = {} THEN <<>> ELSE <<input[Min(cs)].val>>

\* the text {{$input}}
DollarInput == <<Tok("open"), Txt("$input"), Tok("close")>>

\* a prompt that is an expression object, not a string
ObjectPrompt == <<Tok("object")>>

\* the prompt case of convertStepToNode
PromptConfigOf(input) ==
    LET models == {i \in 1..Len(input) : input[i].key = <<"model">>}
        system == MessageContent(input, "system")
        user == MessageContent(input, "user")
    IN  Config(IF models = {} THEN <<"gpt-", "4">>
               ELSE [i \in 1..Len(input[Min(models)].val.toks) |->
                        input[Min(models)].val.toks[i].v[1]],
               IF system = <<>> THEN <<>>
               ELSE IF system[1].tag = "string" THEN system[1].toks
               ELSE ObjectPrompt,
               IF user # <<>> /\ user[1].tag = "string" THEN user[1].toks
               ELSE DollarInput)

convertStepToNode(step) ==
    LET type == InferType(step.component)
    IN  Node(StripLeadingUnderscore(step.id), type,
             IF type = "prompt" THEN PromptConfigOf(step.input)
             ELSE IF type = "model_compare" THEN [NoConfig EXCEPT !.prompt = DollarInput]
             ELSE NoConfig)

\* the ids matched by /"\$step":"([^"]+)"/g in JSON.stringify(input), first
\* occurrences in order (ids hold no quote or backslash)
extractStepReferences(input) ==
    LET Native(e) == e.val.tag = "$step" /\ e.val.id # <<>>
        refs == SelectSeq(input, Native)
    IN  DistinctKeys([i \in 1..Len(refs) |-> refs[i].val.id])

\* the edges pushed for one step
EdgesOfStep(step, nodeIds) ==
    LET targetId == StripLeadingUnderscore(step.id)
        references == extractStepReferences(step.input)
        Known(sourceId) == StripLeadingUnderscore(sourceId) \in nodeIds \/ sourceId \in nodeIds
        kept == SelectSeq(references, Known)
    IN  [i \in 1..Len(kept) |-> Edge(StripLeadingUnderscore(kept[i]), targetId)]

NoWorkflow == [name |-> "", nodes |-> <<>>, edges |-> <<>>]

convertFromStepflow(stepflowWorkflow) ==
    LET nodes == [i \in 1..Len(stepflowWorkflow.steps) |->
                     convertStepToNode(stepflowWorkflow.steps[i])]
        nodeIds == {nodes[i].id : i \in 1..Len(nodes)}
    IN  [name |-> stepflowWorkflow.name,
         nodes |-> nodes,
         edges |-> Flatten([i \in 1..Len(stepflowWorkflow.steps) |->
                               EdgesOfStep(stepflowWorkflow.steps[i], nodeIds)])]


(***************************************************************************)
(* Expression evaluation (stepflowExpressions).  A JSON value is           *)
(* [t, s, toks, items]: t its type, s the text of a string, toks the       *)
(* tokens of a string that holds a template, items the elements of an      *)
(* array or the fields of an object, each [k, val] (k is "" in an array).  *)
(* A dotted path is the sequence of its segments: <<"$", "a", "b">> is     *)
(* $.a.b; paths with brackets or ".." are not among the inputs.            *)
(***************************************************************************)
VUndefined == [t |-> "undefined", s |-> "", toks |-> <<>>, items |-> <<>>]

VNull == [t |-> "null", s |-> "", toks |-> <<>>, items |-> <<>>]

VString(s) == [t |-> "string", s |-> s, toks |-> <<>>, items |-> <<>>]

\* a string that holds a template
VText(toks) == [t |-> "string", s |-> "", toks |-> toks, items |-> <<>>]

\* a string that holds a dotted path
VPath(segments) ==
    [t |-> "string", s |-> "",
     toks |-> [i \in 1..Len(segments) |-> [k |-> "segment", v |-> <<segments[i]>>, f |-> ""]],
     items |-> <<>>]

\* the segments of a string that holds a dotted path
Segments(value) == [i \in 1..Len(value.toks) |-> value.toks[i].v[1]]

Field(k, val) == [k |-> k, val |-> val]

VArray(elements) ==
    [t |-> "array", s |-> "", toks |-> <<>>,
     items |-> [i \in 1..Len(elements) |-> Field("", elements[i])]]

VObject(fields) == [t |-> "object", s |-> "", toks |-> <<>>, items |-> fields]

\* key in value
Has(value, key) == \E i \in 1..Len(value.items) : value.items[i].k = key

\* value[key], on an object
Get(value, key) ==
    IF value.t = "object" /\ Has(value, key)
    THEN value.items[Min({i \in 1..Len(value.items) : value.items[i].k = key})].val
    ELSE VUndefined

\* value?.[part]
OptionalGet(value, part) ==
    IF value.t \in {"undefined", "null"} THEN VUndefined ELSE Get(value, part)

\* the loop over parts of the dot notation shortcut
RECURSIVE WalkParts(_, _)
WalkParts(value, parts) ==
    IF parts = <<>> THEN value
    ELSE IF OptionalGet(value, Head(parts)).t = "undefined" THEN VUndefined
    ELSE WalkParts(OptionalGet(value, Head(parts)), Tail(parts))

\* path is undefined, or a string holding a dotted path
evaluateJSONPath(data, path) ==
    IF path.t = "undefined" \/ Segments(path) \in {<<>>, <<"$">>} THEN data
    ELSE WalkParts(data, Tail(Segments(path)))

\* the result of an evaluation: the value returned or the error thrown, and
\* the parts of the context that were read
Returned(value, lookups) == [thrown |-> "", value |-> value, lookups |-> lookups]

Thrown(error, lookups) == [thrown |-> error, value |-> VUndefined, lookups |-> lookups]

evaluateStepOutput(output, ref) ==
    IF output.t = "undefined" THEN Thrown("Step not found in execution context", {"step"})
    ELSE IF Get(ref, "path").t \notin {"undefined", "null"} /\ Get(ref, "path").toks # <<>>
         THEN Returned(evaluateJSONPath(output, Get(ref, "path")), {"step"})
    ELSE Returned(output, {"step"})

evaluateStepReference(ref, context) ==
    evaluateStepOutput(Get(context.stepOutputs, Get(ref, "$step").s), ref)

evaluateInputReference(ref, context) ==
    IF Segments(Get(ref, "$input")) \in {<<"$">>, <<>>}
    THEN Returned(context.input, {"input"})
    ELSE Returned(evaluateJSONPath(context.input,
                                   VPath(<<"$">> \o Segments(Get(ref, "$input")))),
                  {"input"})

evaluateVariableReference(ref, context) ==
    IF Has(context.variables, Get(ref, "$variable").s)
    THEN Returned(Get(context.variables, Get(ref, "$variable").s), {"variable"})
    ELSE IF Has(ref, "default") THEN Returned(Get(ref, "default"), {"variable"})
    ELSE Thrown("Variable not found and no default provided", {"variable"})


\* Template markers, each a match of one of the three patterns of
\* evaluateTemplate: {{$step.<id>}} or {{$step.<id>.<field>}}, {{$input}} or
\* {{$input.<field>}}, {{$variable.<name>}}
StepField(id, field) == [k |-> "stepmarker", v |-> <<id>>, f |-> field]

InputField(field) == [k |-> "inputmarker", v |-> <<>>, f |-> field]

VariableMarker(name) == [k |-> "varmarker", v |-> <<name>>, f |-> ""]

\* String(value ?? ''), as the pieces of the text
RECURSIVE StringOf(_)
RECURSIVE JoinItems(_, _)
StringOf(value) ==
    CASE value.t \in {"undefined", "null"} -> <<>>
      [] value.t = "string" -> <<value.s>>
      [] value.t = "array"  -> JoinItems(value.items, 1)
      [] OTHER -> <<"[object Object]">>

JoinItems(items, k) ==
    IF k > Len(items) THEN <<>>
    ELSE (IF k > 1 THEN <<",">> ELSE <<>>) \o StringOf(items[k].val) \o JoinItems(items, k + 1)

TextOf(value) == [k |-> "txt", v |-> StringOf(value), f |-> ""]

\* the replacer of the first pattern, given context.stepOutputs[stepId];
\* null[field] is a TypeError
ReplaceStepMarker(tok, output) ==
    IF output.t = "undefined"
    THEN [k |-> "txt", v |-> <<"[step ", tok.v[1], " not found]">>, f |-> ""]
    ELSE IF tok.f = "" THEN TextOf(output)
    ELSE IF output.t = "null" THEN [k |-> "TypeError", v |-> <<>>, f |-> ""]
    ELSE IF output.t \in {"object", "array"} THEN TextOf(Get(output, tok.f))
    ELSE TextOf(output)

\* the replacer of the second pattern
ReplaceInputMarker(tok, input) ==
    IF tok.f = "" THEN TextOf(input) ELSE TextOf(OptionalGet(input, tok.f))

\* the three passes of result.replace
ReplaceMarkers(toks, context) ==
    [i \in 1..Len(toks) |->
        CASE toks[i].k = "stepmarker" ->
                 ReplaceStepMarker(toks[i], Get(context.stepOutputs, toks[i].v[1]))
          [] toks[i].k = "inputmarker" -> ReplaceInputMarker(toks[i], context.input)
          [] toks[i].k = "varmarker" -> TextOf(OptionalGet(context.variables, toks[i].v[1]))
          [] OTHER -> toks[i]]

\* what the replacers of toks read
MarkerLookups(toks) ==
    {kind \in {"step", "input", "variable"} :
        \E i \in 1..Len(toks) :
            toks[i].k = (CASE kind = "step" -> "stepmarker"
                           [] kind = "input" -> "inputmarker"
                           [] OTHER -> "varmarker")}

TemplateResult(toks, replaced) ==
    IF \E i \in 1..Len(replaced) : replaced[i].k = "TypeError"
    THEN Thrown("TypeError", {"step"})
    ELSE Returned(VText(replaced), MarkerLookups(toks))

evaluateTemplate(template, context) ==
    TemplateResult(Get(template, "$template").toks,
                   ReplaceMarkers(Get(template, "$template").toks, context))

\* JavaScript truthiness of a value
Truthy(value) ==
    /\ value.t \notin {"undefined", "null"}
    /\ value.t = "string" => (value.s # "" \/ value.toks # <<>>)

\* data after the three steps of evaluateFromReference
FromData(storage, from) ==
    evaluateJSONPath(
        IF Truthy(Get(from, "step"))
              /\ Truthy(OptionalGet(storage, Get(OptionalGet(from, "workflow"), "path").s))
        THEN Get(OptionalGet(storage, Get(OptionalGet(from, "workflow"), "path").s),
                 Get(from, "step").s)
        ELSE IF Truthy(Get(OptionalGet(from, "workflow"), "path"))
        THEN OptionalGet(storage, Get(OptionalGet(from, "workflow"), "path").s)
        ELSE VUndefined,
        IF Truthy(Get(from, "path")) THEN Get(from, "path") ELSE VUndefined)

evaluateFromReference(ref, context) ==
    IF ~Truthy(context.workflowStorage)
    THEN Thrown("Workflow storage not available for $from reference", {"from"})
    ELSE Returned(FromData(context.workflowStorage, Get(ref, "$from")), {"from"})

\* acc is the result so far of a map over an array, or of the loop over the
\* entries of an object; item is the result for one more element
AddItem(acc, key, item) ==
    IF item.thrown # "" THEN Thrown(item.thrown, acc.lookups \cup item.lookups)
    ELSE [acc EXCEPT !.value.items = Append(@, Field(key, item.value)),
                     !.lookups = @ \cup item.lookups]

RECURSIVE evaluateExpression(_, _)
RECURSIVE evaluateItems(_, _, _, _)

\* a $literal branch that evaluates the wrapped value as an expression
LiteralEvaluated(value, context) ==
    evaluateExpression(Get(value, "$literal"), context)

\* the $literal branch of evaluateExpression: return value.$literal
LiteralValue(value, context) ==
    Returned(Get(value, "$literal"), {})

evaluateExpression(value, context) ==
    CASE value.t \notin {"array", "object"} -> Returned(value, {})
      [] value.t = "array" ->
             evaluateItems(value.items, 1, context, Returned(VArray(<<>>), {}))
      [] OTHER ->
             IF Has(value, "$step") THEN evaluateStepReference(value, context)
             ELSE IF Has(value, "$input") THEN evaluateInputReference(value, context)
             ELSE IF Has(value, "$variable") THEN evaluateVariableReference(value, context)
             ELSE IF Has(value, "$template") THEN evaluateTemplate(value, context)
             ELSE IF Has(value, "$literal") THEN LiteralValue(value, context)
             ELSE IF Has(value, "$from") THEN evaluateFromReference(value, context)
             ELSE evaluateItems(value.items, 1, context, Returned(VObject(<<>>), {}))

evaluateItems(items, k, context, acc) ==
    IF k > Len(items) \/ acc.thrown # "" THEN acc
    ELSE evaluateItems(items, k + 1, context,
                       AddItem(acc, items[k].k, evaluateExpression(items[k].val, context)))

(***************************************************************************)
(* The path-query engine: parseJSONPath, evaluateJSONPathTokens.           *)
(* A path string is the sequence of its pieces after the leading $: a dot  *)
(* with a field name, or a pair of brackets with its content.  The content *)
(* of brackets is given by its form and its colon-separated parts, a part  *)
(* being <<>> (empty text) or <<n>> (the decimal text of the integer n).   *)
(* A filter expression is a sequence of terms: field (@.name), op (a       *)
(* comparison operator), text (a quoted literal), code (any other source   *)
(* text, such as a call).                                                  *)
(***************************************************************************)
DotPiece(field) ==
    [type |-> "dot", field |-> field, form |-> "", parts |-> <<>>, expression |-> <<>>]

\* field is the text between the quotes of a quoted content
BracketPiece(form, field, parts, expr) ==
    [type |-> "bracket", field |-> field, form |-> form, parts |-> parts,
     expression |-> expr]

Term(k, text) == [k |-> k, text |-> text]

\* an accessor: a number, a Slice {start, end, step} (<<>> is undefined), a
\* Filter {expression}, '*', or another string
Accessor(kind, name, start, end, step, expr) ==
    [kind |-> kind, name |-> name, start |-> start, end |-> end, step |-> step,
     expression |-> expr]

\* parts[k] ? parseInt(parts[k], 10) : undefined
PartOrUndefined(parts, k) == IF k <= Len(parts) THEN parts[k] ELSE <<>>

parseBracketContent(content) ==
    CASE content.form = "number" ->
             Accessor("number", "", content.parts[1], <<>>, <<>>, <<>>)
      [] content.form = "slice" ->
             Accessor("slice", "", PartOrUndefined(content.parts, 1),
                      PartOrUndefined(content.parts, 2),
                      PartOrUndefined(content.parts, 3), <<>>)
      [] content.form = "filter" ->
             Accessor("filter", "", <<>>, <<>>, <<>>, content.expression)
      [] content.form = "*" -> Accessor("*", "", <<>>, <<>>, <<>>, <<>>)
      [] OTHER -> Accessor("string", content.field, <<>>, <<>>, <<>>, <<>>)

\* the tokens after the root token
parseJSONPath(pieces) ==
    [i \in 1..Len(pieces) |->
        IF pieces[i].type = "dot"
        THEN [type |-> "dot", field |-> pieces[i].field,
              accessor |-> Accessor("", "", <<>>, <<>>, <<>>, <<>>)]
        ELSE [type |-> "bracket", field |-> "",
              accessor |-> parseBracketContent(pieces[i])]]

\* the outcome of a call: returned (with value), thrown, or diverged (the
\* call never returns); effects holds the source texts that were executed
Outcome(outcome, value, effects) ==
    [outcome |-> outcome, value |-> value, effects |-> effects]

\* the elements of an array
Elements(value) == [i \in 1..Len(value.items) |-> value.items[i].val]

\* x ?? d
OrDefault(x, d) == IF x = <<>> THEN d ELSE x[1]

\* the indices i = start, start + step, ... with i < end that the loop
\* pushes (0 <= i < length), for a loop that ends
RECURSIVE SliceIndices(_, _, _, _)
SliceIndices(i, end, step, length) ==
    IF i >= end THEN <<>>
    ELSE (IF i >= 0 /\ i < length THEN <<i>> ELSE <<>>)
         \o SliceIndices(i + step, end, step, length)

\* for (let i = start; i < end; i += step): with step <= 0 the loop is
\* entered and i never reaches end
SliceLoop(elements, start, end, step) ==
    IF start < end /\ step <= 0 THEN Outcome("diverged", VUndefined, {})
    ELSE Outcome("returned",
                 VArray([k \in 1..Len(SliceIndices(start, end, step, Len(elements))) |->
                            elements[SliceIndices(start, end, step, Len(elements))[k] + 1]]),
                 {})

\* item[field] rendered into the expression text: a string between double
\* quotes as it is (a quote inside it ends the literal, and what follows is
\* source text), anything else by String(value)
QuoteBreak == "\" + launch() + \""

Rendered(value) ==
    IF value.t = "string"
    THEN (IF value.s = QuoteBreak
          THEN <<Term("text", ""), Term("code", "launch()"), Term("text", "")>>
          ELSE <<Term("text", value.s)>>)
    ELSE <<Term("code", IF value.t \in {"undefined", "null"} THEN value.t ELSE "object")>>

\* expression.replace(/@\.(\w+)/g, ...)
RECURSIVE Expanded(_, _)
Expanded(item, expr) ==
    IF expr = <<>> THEN <<>>
    ELSE (IF Head(expr).k = "field"
          THEN Rendered(Get(item, Head(expr).text))
          ELSE <<Head(expr)>>)
         \o Expanded(item, Tail(expr))

\* new Function('return ' + expandedExpr)() inside try/catch: the terms of
\* kind code are executed; the value is that of a comparison of two texts
Executed(expandedExpr) ==
    Outcome("returned",
            IF /\ Len(expandedExpr) = 3
               /\ expandedExpr[1].k = "text" /\ expandedExpr[3].k = "text"
               /\ expandedExpr[2] = Term("op", "==")
               /\ expandedExpr[1].text = expandedExpr[3].text
            THEN VString("true") ELSE VUndefined,
            {expandedExpr[i].text : i \in {k \in 1..Len(expandedExpr) :
                                               expandedExpr[k].k = "code"
                                               /\ expandedExpr[k].text
                                                      \notin {"undefined", "null", "object"}}})

\* item[field] of an item that is null or undefined is a TypeError, thrown
\* outside the try
evaluateFilter(item, expr) ==
    IF /\ item.t \in {"undefined", "null"}
       /\ \E i \in 1..Len(expr) : expr[i].k = "field"
    THEN Outcome("thrown", VUndefined, {})
    ELSE Executed(Expanded(item, expr))

\* data.filter(item => evaluateFilter(item, accessor.expression))
RECURSIVE FilterLoop(_, _, _, _)

FilterStep(elements, expr, k, acc, kept) ==
    IF kept.outcome # "returned"
    THEN Outcome(kept.outcome, VUndefined, acc.effects \cup kept.effects)
    ELSE FilterLoop(elements, expr, k + 1,
                    Outcome("returned",
                            IF Truthy(kept.value)
                            THEN VArray(Append(Elements(acc.value), elements[k]))
                            ELSE acc.value,
                            acc.effects \cup kept.effects))

FilterLoop(elements, expr, k, acc) ==
    IF k > Len(elements) THEN acc
    ELSE FilterStep(elements, expr, k, acc, evaluateFilter(elements[k], expr))

\* data[index], index being any integer
ElementAt(elements, index) ==
    IF index >= 0 /\ index < Len(elements) THEN elements[index + 1] ELSE VUndefined

evaluateBracketAccessor(data, accessor) ==
    CASE accessor.kind = "*" ->
             Outcome("returned",
                     IF data.t = "array" THEN data
                     ELSE IF data.t = "object" THEN VArray(Elements(data))
                     ELSE VUndefined, {})
      [] accessor.kind = "number" ->
             Outcome("returned",
                     IF data.t # "array" THEN VUndefined
                     ELSE ElementAt(Elements(data),
                                    IF accessor.start[1] < 0
                                    THEN Len(data.items) + accessor.start[1]
                                    ELSE accessor.start[1]), {})
      [] accessor.kind = "string" ->
             Outcome("returned", OptionalGet(data, accessor.name), {})
      [] accessor.kind = "slice" ->
             IF data.t # "array" THEN Outcome("returned", VUndefined, {})
             ELSE SliceLoop(Elements(data), OrDefault(accessor.start, 0),
                            OrDefault(accessor.end, Len(data.items)),
                            OrDefault(accessor.step, 1))
      [] OTHER ->
             IF data.t # "array" THEN Outcome("returned", VUndefined, {})
             ELSE FilterLoop(Elements(data), accessor.expression, 1,
                             Outcome("returned", VArray(<<>>), {}))

\* one turn of the loop over the tokens
TokenStep(result, token) ==
    IF token.type = "dot"
    THEN Outcome("returned", OptionalGet(result, token.field), {})
    ELSE evaluateBracketAccessor(result, token.accessor)

\* the loop of evaluateJSONPathTokens from token i on, acc being the outcome
\* so far
RECURSIVE evaluateJSONPathTokens(_, _, _)

NextToken(tokens, i, acc, stepped) ==
    evaluateJSONPathTokens(tokens, i + 1,
                           Outcome(stepped.outcome, stepped.value,
                                   acc.effects \cup stepped.effects))

evaluateJSONPathTokens(tokens, i, acc) ==
    IF i > Len(tokens) \/ acc.outcome # "returned" \/ acc.value.t = "undefined" THEN acc
    ELSE NextToken(tokens, i, acc, TokenStep(acc.value, tokens[i]))

\* evaluateJSONPath of a path given by its pieces: data itself for $, else
\* the tokens of the path applied to data (the dot notation shortcut gives
\* what the dot tokens give)
evaluatePieces(data, pieces) ==
    IF pieces = <<>> THEN Outcome("returned", data, {})
    ELSE evaluateJSONPathTokens(parseJSONPath(pieces), 1, Outcome("returned", data, {}))

(***************************************************************************)
(* Static analysis of expressions: the references a value holds, without   *)
(* evaluating it.                                                          *)
(***************************************************************************)
\* the keys of an object
Keys(value) == {value.items[i].k : i \in 1..Len(value.items)}

\* '$step' in val && typeof val.$step === 'string'
NamesStep(val) ==
    val.t = "object" /\ Has(val, "$step") /\ Get(val, "$step").t = "string"

\* extractStepReferences(value) of the expression module; the set of the
\* ids returned
RECURSIVE extractExpressionStepReferences(_)
extractExpressionStepReferences(val) ==
    IF val.t \notin {"array", "object"} THEN {}
    ELSE (IF NamesStep(val) THEN {Get(val, "$step").s} ELSE {})
         \cup UNION {extractExpressionStepReferences(val.items[i].val) :
                        i \in 1..Len(val.items)}

ExpressionError(kind, name) == [kind |-> kind, name |-> name]

\* validateExpression(value, availableSteps, availableVariables); the set of
\* the errors
RECURSIVE validateExpression(_, _, _)
validateExpression(val, availableSteps, availableVariables) ==
    IF val.t \notin {"array", "object"} THEN {}
    ELSE (IF /\ val.t = "object" /\ Has(val, "$step")
             /\ Get(val, "$step").s \notin availableSteps
          THEN {ExpressionError("Step not found", Get(val, "$step").s)} ELSE {})
         \cup (IF /\ val.t = "object" /\ Has(val, "$variable")
                  /\ Get(val, "$variable").s \notin availableVariables
                  /\ ~Has(val, "default")
               THEN {ExpressionError("Variable not found and no default provided",
                                     Get(val, "$variable").s)}
               ELSE {})
         \cup UNION {validateExpression(val.items[i].val, availableSteps,
                                        availableVariables) :
                        i \in 1..Len(val.items)}

\* findMissingRefs(obj) of validateStepflowImport, stepIds being the ids of
\* the steps of the document; the set of the ids reported
RECURSIVE findMissingRefs(_, _)
findMissingRefs(obj, stepIds) ==
    IF obj.t \notin {"array", "object"} THEN {}
    ELSE (IF NamesStep(obj) /\ Get(obj, "$step").s \notin stepIds
          THEN {Get(obj, "$step").s} ELSE {})
         \cup UNION {findMissingRefs(obj.items[i].val, stepIds) :
                        i \in 1..Len(obj.items)}

\* createEmptyContext()
createEmptyContext ==
    [input |-> VObject(<<>>), stepOutputs |-> VObject(<<>>),
     variables |-> VObject(<<>>), workflowStorage |-> VUndefined]

(***************************************************************************)
(* The inputs of the evaluator: expressions and execution contexts.        *)
(***************************************************************************)
MaxNesting == 2

\* a context in the middle of a run: step s has produced an object, step n
\* has produced null
RunningContext ==
    [input |-> VObject(<<Field("text", VString("hello"))>>),
     stepOutputs |-> VObject(<<Field("s", VObject(<<Field("text", VString("out"))>>)),
                               Field("n", VNull)>>),
     variables |-> VObject(<<Field("v", VString("1"))>>),
     workflowStorage |->
         VObject(<<Field("flows/a", VObject(<<Field("s", VString("stored"))>>))>>)]

Contexts == {createEmptyContext, RunningContext}

\* values that look like expressions, with and without a target in
\* RunningContext
ReferenceShaped ==
    {VObject(<<Field("$step", VString("ghost"))>>),
     VObject(<<Field("$step", VString("s"))>>),
     VObject(<<Field("$step", VString("s")), Field("path", VPath(<<"$", "text">>))>>),
     VObject(<<Field("$input", VPath(<<"$">>))>>),
     VObject(<<Field("$input", VPath(<<"text">>))>>),
     VObject(<<Field("$variable", VString("v"))>>),
     VObject(<<Field("$variable", VString("nope"))>>),
     VObject(<<Field("$variable", VString("nope")), Field("default", VString("d"))>>),
     VObject(<<Field("$template", VText(<<Txt("a"), StepField("s", "text")>>))>>),
     VObject(<<Field("$template", VText(<<StepField("n", "text")>>))>>),
     VObject(<<Field("$template", VText(<<InputField("text"), VariableMarker("v")>>))>>),
     VObject(<<Field("$from", VObject(<<Field("workflow",
                         VObject(<<Field("path", VString("flows/a"))>>)),
                                        Field("step", VString("s"))>>))>>)}

\* what a $literal may wrap
LiteralContents ==
    {VString("hi"), VNull, VUndefined,
     VArray(<<VObject(<<Field("$input", VPath(<<"$">>))>>)>>),
     VObject(<<Field("$literal", VString("x"))>>)}
    \cup ReferenceShaped

RECURSIVE Nested(_, _)
Nested(leaves, n) ==
    IF n = 0 THEN leaves
    ELSE LET inner == Nested(leaves, n - 1)
         IN  inner \cup {VArray(<<e, VString("z")>>) : e \in inner}
                   \cup {VObject(<<Field("a", e)>>) : e \in inner}

Expressions ==
    Nested({VString("hi"), VNull}
           \cup ReferenceShaped
           \cup {VObject(<<Field("$literal", x)>>) : x \in LiteralContents},
           MaxNesting)

(***************************************************************************)
(* The inputs: workflows over small pools of nodes, and documents received *)
(* from outside.                                                           *)
(***************************************************************************)
\* the sequences without repetition of at most n elements of S
RECURSIVE Arrangements(_, _)
Arrangements(S, n) ==
    IF n = 0 THEN {<<>>}
    ELSE LET shorter == Arrangements(S, n - 1)
         IN  shorter \cup {Append(q, x) : <<q, x>> \in
                              {qx \in shorter \X S :
                                  Len(qx[1]) = n - 1 /\ qx[2] \notin SeqToSet(qx[1])}}

Braced(toks) == <<Tok("open")>> \o toks \o <<Tok("close")>>

Gpt4 == <<"gpt-", "4">>

\* createDefaultWorkflow, with ids of the form generateId gives them
\* (digits of the clock, "-", a base-36 suffix)
DefaultNodes ==
    { Node(<<"1", "-", "a">>, "input", NoConfig),
      Node(<<"1", "-", "b">>, "prompt",
           Config(Gpt4, <<Txt("You are a helpful assistant.")>>, Braced(<<Txt("input")>>))),
      Node(<<"1", "-", "c">>, "output", NoConfig) }

\* Input(in1) -> Prompt(p1, "{{nodes.in1.output}}") -> Output(out1)
EndToEndNodes ==
    { Node(<<"i", "n", "1">>, "input", NoConfig),
      Node(<<"p", "1">>, "prompt",
           Config(Gpt4, <<>>, Braced(<<NodeRef(<<"i", "n", "1">>)>>))),
      Node(<<"o", "u", "t", "1">>, "output", NoConfig) }

\* ids that differ only in a character sanitizeId rewrites, and the empty id
HyphenNodes ==
    { Node(<<"a", "-", "b">>, "input", NoConfig),
      Node(<<"a", "_", "b">>, "prompt",
           Config(<<"claude-", "3-opus">>, <<>>,
                  <<Txt("Hello"), Tok("ws")>> \o Braced(<<Txt("input")>>) \o <<Txt("!")>>)),
      Node(<<>>, "aggregate", NoConfig) }

\* an id with a leading digit beside its sanitized form; a prompt without a
\* model whose text is the escaped \{{not a ref\}}
DigitNodes ==
    { Node(<<"1", "x">>, "human_gate", NoConfig),
      Node(<<"_", "1", "x">>, "prompt",
           Config(Gpt4, <<>>,
                  <<Txt("Summarize"), Tok("ws")>> \o Braced(<<NodeRef(<<"x">>)>>))),
      Node(<<"x">>, "prompt",
           Config(<<>>, <<>>,
                  <<Tok("bs"), Tok("open"), Txt("not a ref"), Tok("bs"), Tok("close")>>)) }

\* the remaining node types
FanOutNodes ==
    { Node(<<"b">>, "branch", NoConfig),
      Node(<<"c">>, "model_compare", [NoConfig EXCEPT !.prompt = Braced(<<Txt("input")>>)]),
      Node(<<"p">>, "prompt",
           Config(<<"mistral">>, <<>>, Braced(<<Tok("ws"), NodeField(<<"b">>, "text")>>))) }

\* nodes as they can come out of the database: a prompt node and an output
\* node whose data holds no config, a node of a type no converter knows
StoredNodes ==
    { Node(<<"p">>, "prompt", UndefinedConfig),
      Node(<<"o">>, "output", UndefinedConfig),
      Node(<<"x">>, "loop", NoConfig) }

\* a prompt that is one reference to a node whose id sanitizeId rewrites
RewrittenRefNodes ==
    { Node(<<"i", "-", "1">>, "input", NoConfig),
      Node(<<"p">>, "prompt",
           Config(Gpt4, <<>>, Braced(<<NodeRef(<<"i", "-", "1">>)>>))) }

NodePools ==
    {DefaultNodes, EndToEndNodes, HyphenNodes, DigitNodes, FanOutNodes, StoredNodes,
     RewrittenRefNodes}

NodeSeqs == UNION {Arrangements(pool, Cardinality(pool)) : pool \in NodePools}

\* edges join nodes of the workflow
EdgeSeqs(nodes) ==
    Arrangements({Edge(nodes[i].id, nodes[j].id) : i, j \in 1..Len(nodes)}, MaxEdges)

\* the node ids the prompts of a node name
PromptRefs(node) ==
    LET toks == node.config.systemPrompt \o node.config.userPrompt \o node.config.prompt
    IN  {toks[i].v : i \in {k \in 1..Len(toks) : toks[k].k = "noderef"}}

\* every node a prompt names is a node of the workflow
ReferencesResolve(nodes) ==
    \A i \in 1..Len(nodes) : PromptRefs(nodes[i]) \subseteq {nodes[j].id : j \in 1..Len(nodes)}

Workflows ==
    UNION {{[name |-> "Hello World", nodes |-> nodes, edges |-> edges] :
               edges \in EdgeSeqs(nodes)} :
           nodes \in {ns \in NodeSeqs : ReferencesResolve(ns)}}

\* steps of documents received from outside
ReceivedSteps ==
    { Step(<<"a">>, <<"builtin", "input">>, <<>>),
      Step(<<"_", "a">>, <<"builtin", "output">>,
           << Entry(<<"value">>, StepRef(<<"a">>)) >>),
      Step(<<"b">>, <<"builtin", "openai">>,
           << Entry(<<"messages", "0", "role">>, Str(<<Txt("user")>>)),
              Entry(<<"messages", "0", "content">>,
                    Template(<<Txt("Use"), Tok("ws"), StepMarker(<<"a">>)>>)) >>),
      Step(<<"c">>, <<"builtin", "aggregate">>,
           << Entry(<<"inputs", "0">>, StepRef(<<"g", "h", "o", "s", "t">>)),
              Entry(<<"inputs", "1">>, StepRef(<<"a">>)),
              Entry(<<"inputs", "2">>, StepRef(<<"g", "o", "n", "e">>)) >>),
      Step(<<"d">>, <<"builtin", "pause">>,
           << Entry(<<"value">>, StepRef(<<"b">>)) >>) }

ReceivedOutputs ==
    { <<>>,
      << Entry(<<>>, StepRef(<<"a">>)) >>,
      << Entry(<<>>, StepRef(<<"g", "h", "o", "s", "t">>)) >> }

ReceivedDocuments ==
    {[thrown |-> "", names |-> {}, name |-> name, steps |-> steps, hasSchemas |-> FALSE,
      schemaProps |-> <<>>, output |-> output] :
         name \in {"", "imported"},
         steps \in Arrangements(ReceivedSteps, MaxSteps),
         output \in ReceivedOutputs}

(***************************************************************************)
(* The state machine.                                                      *)
(*   start -> validated -> exported -> exportChecked -> roundTripped       *)
(*        |             \-> failed (convertToStepflow threw)               *)
(*        \-> validateThrew (validateForStepflow threw)                    *)
(*   received -> importChecked -> imported                                 *)
(***************************************************************************)
NoResult == [valid |-> FALSE, errors |-> <<>>, thrown |-> ""]

NoEvaluation == Returned(VUndefined, {})

\* a request: the route, the revision of the handlers that serves it, and
\* what the handler reads besides the stored workflow or the document sent
Request(route, revision, stepflowCliAvailable, exitCode, schema, yaml) ==
    [route |-> route, revision |-> revision,
     stepflowCliAvailable |-> stepflowCliAvailable, exitCode |-> exitCode,
     schema |-> schema, yaml |-> yaml]

NoRequest == Request("", "", FALSE, 0, FALSE, "")

NoResponse == [status |-> 0, details |-> <<>>]

\* no request is being served
Idle ==
    /\ request = NoRequest
    /\ calls = <<>>
    /\ db = <<>>
    /\ response = NoResponse

NoOutcome == Outcome("", VUndefined, {})

\* no path query is being evaluated
NoQuery ==
    /\ queryData = VUndefined
    /\ queryPath = <<>>
    /\ queried = NoOutcome

\* a component of the catalog; NoComponent is what a Map gives for a path it
\* does not hold (undefined)
Component(path, name, provider) == [path |-> path, name |-> name, provider |-> provider]

NoComponent == Component("", "", "")

\* the paths components are registered under
ComponentPaths == {"/builtin/openai", "/builtin/eval", "/mcp/search", "/mcp/fetch"}

\* BUILTIN_COMPONENTS
BUILTIN_COMPONENTS ==
    << Component("/builtin/openai", "OpenAI", "builtin"),
       Component("/builtin/eval", "Eval", "builtin") >>

\* map.set(key, value) for each entry of a list, in order
RECURSIVE SetAll(_, _)
SetAll(map, entries) ==
    IF entries = <<>> THEN map
    ELSE SetAll([map EXCEPT ![Head(entries).path] = Head(entries)], Tail(entries))

\* the three Maps after new Map() or clear()
NoComponents == [path \in ComponentPaths |-> NoComponent]

Plugin(id, status, comps) == [id |-> id, status |-> status, components |-> comps]

NoPlugin == Plugin("", "", <<>>)

PluginIds == {"builtin", "mcp"}

NoPlugins == [id \in PluginIds |-> NoPlugin]

ServerIds == {"search", "fetch"}

NoServers == [id \in ServerIds |-> ""]

\* registerBuiltinComponents() on empty Maps
BuiltinComponents == SetAll(NoComponents, BUILTIN_COMPONENTS)

BuiltinPlugins ==
    [NoPlugins EXCEPT !["builtin"] = Plugin("builtin", "connected", BUILTIN_COMPONENTS)]

\* the registry is as its constructor leaves it and nothing has been called
NoRegistry ==
    /\ components = BuiltinComponents
    /\ plugins = BuiltinPlugins
    /\ mcpServers = NoServers
    /\ found = NoComponent
    /\ registryCalls = 0

\* the status and error columns of an execution record
Status(status, error) == [status |-> status, error |-> error]

\* no workflow is being executed
NoExecution ==
    /\ startNodeId = <<>>
    /\ queue = <<>>
    /\ executedNodes = {}
    /\ recorded = {}
    /\ started = <<>>
    /\ stored = Status("", "")
    /\ emitted = {}
    /\ turns = 0

NoAnalysis == [references |-> {}, errors |-> {}, missing |-> {}]

OthersIdle == NoQuery /\ NoRegistry /\ NoExecution /\ analysis = NoAnalysis

Init ==
    /\ Idle
    /\ OthersIdle
    /\ expression = VUndefined
    /\ executionContext = createEmptyContext
    /\ evaluation = NoEvaluation
    /\ validation = NoResult
    /\ importResult = NoResult
    /\ reimported = NoWorkflow
    /\ \/ /\ pc = "start"
          /\ workflow \in Workflows
          /\ stepflow = NoDocument
       \/ /\ pc = "received"
          /\ workflow = NoWorkflow
          /\ stepflow \in ReceivedDocuments

\* validateForStepflow(workflow)
Validate ==
    /\ pc = "start"
    /\ validation' = validateForStepflow(workflow)
    /\ pc' = IF validation'.thrown # "" THEN "validateThrew" ELSE "validated"
    /\ UNCHANGED <<workflow, stepflow, importResult, reimported>>
    /\ UNCHANGED <<evalVars, serverVars, otherVars>>

\* convertToStepflow(workflow)
Export ==
    /\ pc = "validated"
    /\ stepflow' = convertToStepflow(workflow)
    /\ pc' = IF stepflow'.thrown # "" THEN "failed" ELSE "exported"
    /\ UNCHANGED <<workflow, validation, importResult, reimported>>
    /\ UNCHANGED <<evalVars, serverVars, otherVars>>

\* validateStepflowImport(document)
ValidateImport ==
    /\ pc \in {"exported", "received"}
    /\ importResult' = validateStepflowImport(stepflow)
    /\ pc' = IF pc = "exported" THEN "exportChecked" ELSE "importChecked"
    /\ UNCHANGED <<workflow, validation, stepflow, reimported>>
    /\ UNCHANGED <<evalVars, serverVars, otherVars>>

\* convertFromStepflow(document)
Reconstruct ==
    /\ pc \in {"exportChecked", "importChecked"}
    /\ reimported' = convertFromStepflow(stepflow)
    /\ pc' = IF pc = "exportChecked" THEN "roundTripped" ELSE "imported"
    /\ UNCHANGED <<workflow, validation, stepflow, importResult>>
    /\ UNCHANGED <<evalVars, serverVars, otherVars>>

Next == Validate \/ Export \/ ValidateImport \/ Reconstruct

Spec == Init /\ [][Next]_vars

(***************************************************************************)
(* The evaluator: an expression and a context are given, evaluateExpression *)
(* is applied once.                                                         *)
(*   expression -> evaluated                                                *)
(***************************************************************************)
EvaluatorInit ==
    /\ pc = "expression"
    /\ expression \in Expressions
    /\ executionContext \in Contexts
    /\ evaluation = NoEvaluation
    /\ Idle
    /\ OthersIdle
    /\ workflow = NoWorkflow
    /\ stepflow = NoDocument
    /\ validation = NoResult
    /\ importResult = NoResult
    /\ reimported = NoWorkflow

\* evaluateExpression(expression, executionContext)
Evaluate ==
    /\ pc = "expression"
    /\ evaluation' = evaluateExpression(expression, executionContext)
    /\ pc' = "evaluated"
    /\ UNCHANGED <<expression, executionContext>>
    /\ UNCHANGED <<convVars, serverVars, otherVars>>

\* the static analysis of expression as the input of a step, the steps
\* and variables of executionContext being those of the document
Analyze ==
    /\ pc = "expression"
    /\ analysis' =
          [references |-> extractExpressionStepReferences(expression),
           errors |-> validateExpression(expression, Keys(executionContext.stepOutputs),
                                         Keys(executionContext.variables)),
           missing |-> findMissingRefs(expression, Keys(executionContext.stepOutputs))]
    /\ pc' = "analyzed"
    /\ UNCHANGED <<convVars, evalVars, serverVars, queryVars, registryVars, executorVars>>

EvaluatorNext == Evaluate \/ Analyze

EvaluatorSpec == EvaluatorInit /\ [][EvaluatorNext]_vars

(***************************************************************************)
(* The server: one request is received and its handler answers it.  The    *)
(* handlers exist in two revisions, src/server/src/handlers/stepflow.ts    *)
(* and src/unnamed/part_006.  workflow is what db.getWorkflow returns      *)
(* (NoWorkflow: nothing stored under the id), stepflow the document of the *)
(* body (for import-yaml: what the YAML text parses to); calls lists the   *)
(* functions the handler called, in order.                                 *)
(*   request -> responded                                                  *)
(***************************************************************************)
Revisions == {"handlers/stepflow.ts", "part_006"}

\* workflows in the database: few edges
StoredWorkflows == {wf \in Workflows : Len(wf.edges) <= 1}

ExportRoutes == {"yaml", "json", "python", "preview", "validate", "run"}

ImportRoutes == {"import", "import-yaml"}

ExportRequests ==
    {Request(route, revision, TRUE, 0, FALSE, "") :
        route \in {"yaml", "json", "preview", "validate"}, revision \in Revisions}
    \cup {Request("python", "part_006", TRUE, 0, FALSE, "")}
    \cup {Request("run", revision, cli, exitCode, FALSE, "") :
             revision \in Revisions, cli \in BOOLEAN, exitCode \in 0..1}

\* yaml: "" (no YAML content), "syntax error", or "document"
ImportRequests ==
    {Request("import", revision, TRUE, 0, schema, "") :
        revision \in Revisions, schema \in BOOLEAN}
    \cup {Request("import-yaml", revision, TRUE, 0, FALSE, "document") :
             revision \in Revisions}

BrokenImportRequests ==
    {Request("import-yaml", revision, TRUE, 0, FALSE, yaml) :
        revision \in Revisions, yaml \in {"", "syntax error"}}

ServerInit ==
    /\ pc = "request"
    /\ OthersIdle
    /\ \/ /\ request \in ExportRequests
          /\ workflow \in StoredWorkflows \cup {NoWorkflow}
          /\ stepflow = NoDocument
       \/ /\ request \in ImportRequests
          /\ workflow = NoWorkflow
          /\ stepflow \in ReceivedDocuments
       \/ /\ request \in BrokenImportRequests
          /\ workflow = NoWorkflow
          /\ stepflow = NoDocument
    /\ db = IF workflow = NoWorkflow THEN <<>> ELSE <<workflow>>
    /\ calls = <<>>
    /\ response = NoResponse
    /\ validation = NoResult
    /\ importResult = NoResult
    /\ reimported = NoWorkflow
    /\ expression = VUndefined
    /\ executionContext = createEmptyContext
    /\ evaluation = NoEvaluation

\* what a handler did: the functions called, the status and the details of
\* the answer, the results of the validator and of convertFromStepflow
Answer(called, status, details, checked, created) ==
    [calls |-> called, status |-> status, details |-> details,
     checked |-> checked, created |-> created]

\* res.status(404).json({ error: 'Workflow not found' })
NotFound == Answer(<<>>, 404, <<>>, NoResult, <<>>)

\* validateForStepflow, 400 when invalid, then the compiler inside try/catch;
\* an error thrown outside try/catch is answered 500 by the framework
CheckedExport(checked, compiled, compiler, status) ==
    IF checked.thrown # "" THEN Answer(<<"validateForStepflow">>, 500, <<>>, checked, <<>>)
    ELSE IF ~checked.valid
    THEN Answer(<<"validateForStepflow">>, 400, checked.errors, checked, <<>>)
    ELSE Answer(<<"validateForStepflow", compiler>>,
                IF compiled.thrown # "" THEN 500 ELSE status, <<>>, checked, <<>>)

\* the preview handler: convertToStepflow, toStepflowYAML (which calls
\* convertToStepflow), then validateForStepflow, all inside try/catch
Previewed(compiled, checked) ==
    IF compiled.thrown # "" THEN Answer(<<"convertToStepflow">>, 500, <<>>, NoResult, <<>>)
    ELSE Answer(<<"convertToStepflow", "convertToStepflow", "validateForStepflow">>,
                IF checked.thrown # "" THEN 500 ELSE 200,
                checked.errors, checked, <<>>)

\* the validate handler: of part_006 with the compiler called after the
\* validator, of handlers/stepflow.ts without
Validated006(checked, compiled) ==
    IF checked.thrown # "" THEN Answer(<<"validateForStepflow">>, 500, <<>>, checked, <<>>)
    ELSE Answer(<<"validateForStepflow", "convertToStepflow">>,
                IF compiled.thrown # "" THEN 500 ELSE 200, checked.errors, checked, <<>>)

ValidatedOnly(checked) ==
    Answer(<<"validateForStepflow">>, IF checked.thrown # "" THEN 500 ELSE 200,
           checked.errors, checked, <<>>)

\* the import handlers of part_006: validateStepflowImport, 400 when
\* invalid, then convertFromStepflow and db.createWorkflow
CheckedImport(checked, partialWorkflow) ==
    IF ~checked.valid
    THEN Answer(<<"validateStepflowImport">>, 400, checked.errors, checked, <<>>)
    ELSE Answer(<<"validateStepflowImport", "convertFromStepflow", "createWorkflow">>,
                201, <<>>, checked, <<partialWorkflow>>)

\* the import handlers of handlers/stepflow.ts: convertFromStepflow and
\* db.createWorkflow
UncheckedImport(partialWorkflow) ==
    Answer(<<"convertFromStepflow", "createWorkflow">>, 201, <<>>, NoResult,
           <<partialWorkflow>>)

\* res.status(400) before anything is called
BadRequest == Answer(<<>>, 400, <<>>, NoResult, <<>>)

\* the handler of an export route ends with answer a
RespondExport(a) ==
    /\ calls' = a.calls
    /\ response' = [status |-> a.status, details |-> a.details]
    /\ validation' = a.checked
    /\ pc' = "responded"
    /\ UNCHANGED <<request, db, workflow, stepflow, importResult, reimported>>
    /\ UNCHANGED <<evalVars, otherVars>>

\* the handler of an import route ends with answer a
RespondImport(a) ==
    /\ calls' = a.calls
    /\ response' = [status |-> a.status, details |-> a.details]
    /\ importResult' = a.checked
    /\ db' = db \o a.created
    /\ reimported' = IF a.created = <<>> THEN reimported ELSE a.created[1]
    /\ pc' = "responded"
    /\ UNCHANGED <<request, workflow, stepflow, validation>>
    /\ UNCHANGED <<evalVars, otherVars>>

\* GET /workflows/:id/stepflow/yaml
GetYaml ==
    /\ pc = "request" /\ request.route = "yaml"
    /\ RespondExport(IF workflow = NoWorkflow THEN NotFound
                     ELSE CheckedExport(validateForStepflow(workflow),
                                        convertToStepflow(workflow),
                                        "convertToStepflow", 200))

\* GET /workflows/:id/stepflow/json
GetJson ==
    /\ pc = "request" /\ request.route = "json"
    /\ RespondExport(IF workflow = NoWorkflow THEN NotFound
                     ELSE CheckedExport(validateForStepflow(workflow),
                                        convertToStepflow(workflow),
                                        "convertToStepflow", 200))

\* GET /workflows/:id/stepflow/python: toFlowBuilderPython returns or throws
GetPython ==
    /\ pc = "request" /\ request.route = "python"
    /\ \E thrown \in {"", "Error"} :
          RespondExport(IF workflow = NoWorkflow THEN NotFound
                        ELSE CheckedExport(validateForStepflow(workflow),
                                           [thrown |-> thrown],
                                           "toFlowBuilderPython", 200))

\* GET /workflows/:id/stepflow/preview
GetPreview ==
    /\ pc = "request" /\ request.route = "preview"
    /\ RespondExport(IF workflow = NoWorkflow THEN NotFound
                     ELSE Previewed(convertToStepflow(workflow),
                                    validateForStepflow(workflow)))

\* POST /workflows/:id/stepflow/validate
PostValidate ==
    /\ pc = "request" /\ request.route = "validate"
    /\ RespondExport(IF workflow = NoWorkflow THEN NotFound
                     ELSE IF request.revision = "part_006"
                     THEN Validated006(validateForStepflow(workflow),
                                       convertToStepflow(workflow))
                     ELSE ValidatedOnly(validateForStepflow(workflow)))

\* POST /workflows/:id/stepflow/run: the status after the compiler is that
\* of the exit code of the stepflow process
PostRun ==
    /\ pc = "request" /\ request.route = "run"
    /\ RespondExport(IF ~request.stepflowCliAvailable
                     THEN Answer(<<>>, 503, <<>>, NoResult, <<>>)
                     ELSE IF workflow = NoWorkflow THEN NotFound
                     ELSE CheckedExport(validateForStepflow(workflow),
                                        convertToStepflow(workflow),
                                        "convertToStepflow",
                                        IF request.exitCode = 0 THEN 200 ELSE 500))

\* POST /stepflow/import
PostImport ==
    /\ pc = "request" /\ request.route = "import"
    /\ RespondImport(IF request.revision = "part_006"
                     THEN CheckedImport(validateStepflowImport(stepflow),
                                        convertFromStepflow(stepflow))
                     ELSE IF ~request.schema THEN BadRequest
                     ELSE UncheckedImport(convertFromStepflow(stepflow)))

\* POST /stepflow/import-yaml
PostImportYaml ==
    /\ pc = "request" /\ request.route = "import-yaml"
    /\ RespondImport(IF request.yaml = "" THEN BadRequest
                     ELSE IF request.revision = "part_006"
                     THEN (IF request.yaml = "syntax error" THEN BadRequest
                           ELSE CheckedImport(validateStepflowImport(stepflow),
                                              convertFromStepflow(stepflow)))
                     ELSE UncheckedImport(convertFromStepflow(stepflow)))

ServerNext ==
    \/ GetYaml \/ GetJson \/ GetPython \/ GetPreview \/ PostValidate \/ PostRun
    \/ PostImport \/ PostImportYaml

ServerSpec == ServerInit /\ [][ServerNext]_vars

(***************************************************************************)
(* The path queries: a value and a path are given, evaluateJSONPath is     *)
(* applied once.                                                           *)
(*   query -> queried                                                      *)
(***************************************************************************)
\* nothing is being converted, evaluated or served
ConversionIdle ==
    /\ workflow = NoWorkflow
    /\ stepflow = NoDocument
    /\ validation = NoResult
    /\ importResult = NoResult
    /\ reimported = NoWorkflow

EvaluatorIdle ==
    /\ expression = VUndefined
    /\ executionContext = createEmptyContext
    /\ evaluation = NoEvaluation

\* the largest integer written in a path
MaxIndex == 4

Named(name) == VObject(<<Field("name", VString(name))>>)

QueryArrays ==
    { VArray(<<VString("a"), VString("b"), VString("c")>>),
      VArray(<<VString("a"), VNull, VString("b")>>),
      VArray(<<Named("a"), Named("b")>>),
      VArray(<<Named("a"), VNull>>),
      VArray(<<Named(QuoteBreak)>>),
      VArray(<<>>) }

QueryData ==
    {VObject(<<Field("arr", array)>>) : array \in QueryArrays}
    \cup {VObject(<<Field("arr", VNull)>>), VObject(<<Field("arr", VString("a"))>>), VNull}

IntegerTexts == {<<n>> : n \in (0 - MaxIndex)..MaxIndex}

StepTexts == {<<>>, <<0 - 1>>, <<0>>, <<1>>, <<2>>}

SlicePieces ==
    {BracketPiece("slice", "", <<start, end>>, <<>>) :
        start \in IntegerTexts \cup {<<>>}, end \in IntegerTexts \cup {<<>>}}
    \cup {BracketPiece("slice", "", <<start, end, step>>, <<>>) :
             start \in IntegerTexts \cup {<<>>}, end \in IntegerTexts \cup {<<>>},
             step \in StepTexts}

\* @.name == "a",  "a" == "a",  launch()
FilterExpressions ==
    { <<Term("field", "name"), Term("op", "=="), Term("text", "a")>>,
      <<Term("text", "a"), Term("op", "=="), Term("text", "a")>>,
      <<Term("code", "launch()")>> }

BracketPieces ==
    SlicePieces
    \cup {BracketPiece("number", "", <<n>>, <<>>) : n \in IntegerTexts}
    \cup {BracketPiece("filter", "", <<>>, e) : e \in FilterExpressions}
    \cup {BracketPiece("quoted", "name", <<>>, <<>>), BracketPiece("*", "", <<>>, <<>>)}

\* $, $.arr, $.none.name, $.arr[...], $.arr[...].name, $.arr[n][...]
QueryPaths ==
    {<<>>, <<DotPiece("arr")>>, <<DotPiece("none"), DotPiece("name")>>}
    \cup {<<DotPiece("arr"), b>> : b \in BracketPieces}
    \cup {<<DotPiece("arr"), b, DotPiece("name")>> :
             b \in BracketPieces \ SlicePieces}
    \cup {<<DotPiece("arr"), BracketPiece("number", "", <<<<1>>>>, <<>>), b>> :
             b \in BracketPieces \ SlicePieces}

PathInit ==
    /\ pc = "query"
    /\ queryData \in QueryData
    /\ queryPath \in QueryPaths
    /\ queried = NoOutcome
    /\ Idle
    /\ ConversionIdle
    /\ EvaluatorIdle
    /\ NoRegistry
    /\ NoExecution
    /\ analysis = NoAnalysis

\* evaluateJSONPath(queryData, queryPath)
Query ==
    /\ pc = "query"
    /\ queried' = evaluatePieces(queryData, queryPath)
    /\ pc' = "queried"
    /\ UNCHANGED <<queryData, queryPath>>
    /\ UNCHANGED <<convVars, evalVars, serverVars, registryVars, executorVars, analysis>>

PathNext == Query

PathSpec == PathInit /\ [][PathNext]_vars

(***************************************************************************)
(* The component registry: the global componentRegistry after its          *)
(* construction, and calls of its methods in any order.                    *)
(***************************************************************************)
\* the number of calls followed
MaxCalls == 3

\* what callers register
Registrations ==
    {Component(path, name, provider) :
        path \in ComponentPaths, name \in {"OpenAI", "Search"}, provider \in {"builtin", "mcp"}}

PluginRegistrations ==
    { Plugin("mcp", "connected", <<Component("/mcp/search", "Search", "mcp"),
                                   Component("/mcp/fetch", "Fetch", "mcp")>>),
      Plugin("mcp", "disconnected", <<Component("/mcp/search", "Find", "mcp")>>),
      Plugin("builtin", "connected", <<Component("/builtin/openai", "Search", "mcp")>>) }

RegistryInit ==
    /\ pc = "registry"
    /\ NoRegistry
    /\ NoQuery
    /\ NoExecution
    /\ analysis = NoAnalysis
    /\ Idle
    /\ ConversionIdle
    /\ EvaluatorIdle

\* a method of the registry was called
Called ==
    /\ registryCalls < MaxCalls
    /\ registryCalls' = registryCalls + 1
    /\ UNCHANGED <<pc, convVars, evalVars, serverVars, queryVars, executorVars, analysis>>

\* getComponent(path)
getComponent(path) == components[path]

\* registerComponent(component)
registerComponent ==
    \E component \in Registrations :
        /\ Called
        /\ components' = SetAll(components, <<component>>)
        /\ UNCHANGED <<plugins, mcpServers, found>>

\* registerPlugin(plugin)
registerPlugin ==
    \E plugin \in PluginRegistrations :
        /\ Called
        /\ plugins' = [plugins EXCEPT ![plugin.id] = plugin]
        /\ components' = SetAll(components, plugin.components)
        /\ UNCHANGED <<mcpServers, found>>

\* registerMCPServer(config)
registerMCPServer ==
    \E id \in ServerIds, command \in {"npx", "uvx"} :
        /\ Called
        /\ mcpServers' = [mcpServers EXCEPT ![id] = command]
        /\ UNCHANGED <<components, plugins, found>>

\* clear()
clear ==
    /\ Called
    /\ components' = BuiltinComponents
    /\ plugins' = BuiltinPlugins
    /\ mcpServers' = NoServers
    /\ UNCHANGED found

\* a query: getComponent(path)
GetComponent ==
    \E path \in ComponentPaths :
        /\ Called
        /\ found' = getComponent(path)
        /\ UNCHANGED <<components, plugins, mcpServers>>

RegistryNext ==
    \/ registerComponent
    \/ registerPlugin
    \/ registerMCPServer
    \/ clear
    \/ GetComponent

RegistrySpec == RegistryInit /\ [][RegistryNext]_vars

(***************************************************************************)
(* The execution of a workflow over a socket: execution:start is received, *)
(* its handler creates the execution record and awaits                     *)
(* WorkflowExecutor.execute, whose queue loop runs one turn at a time and  *)
(* awaits the execution of each node; execution:cancel may be handled      *)
(* whenever the handler of execution:start is waiting for a node that      *)
(* calls a model, or has ended.  workflow is what db.getWorkflow returns.  *)
(* turns is the parity of the number of turns the loop has taken.          *)
(*   execution:start -> loop <-> awaiting, loop -> done                    *)
(***************************************************************************)
ExecutorNodes ==
    << Node(<<"a">>, "input", NoConfig), Node(<<"b">>, "prompt", NoConfig),
       Node(<<"c">>, "output", NoConfig) >>

\* a chain, a shortcut, an edge back, a self-loop, an edge from no node
ExecutorEdges ==
    { Edge(<<"a">>, <<"b">>), Edge(<<"b">>, <<"c">>), Edge(<<"a">>, <<"c">>),
      Edge(<<"b">>, <<"a">>), Edge(<<"c">>, <<"c">>), Edge(<<"x">>, <<"c">>) }

ExecutorWorkflows ==
    {[name |-> "Hello World", nodes |-> ExecutorNodes, edges |-> edges] :
        edges \in Arrangements(ExecutorEdges, MaxEdges)}

\* options.startNodeId; <<>> is none given
StartNodeIds == {<<>>, <<"a">>, <<"b">>, <<"x">>}

ExecutorInit ==
    /\ pc = "execution:start"
    /\ workflow \in ExecutorWorkflows \cup {NoWorkflow}
    /\ startNodeId \in StartNodeIds
    /\ queue = <<>>
    /\ executedNodes = {}
    /\ recorded = {}
    /\ started = <<>>
    /\ stored = Status("", "")
    /\ emitted = {}
    /\ turns = 0
    /\ stepflow = NoDocument
    /\ validation = NoResult
    /\ importResult = NoResult
    /\ reimported = NoWorkflow
    /\ Idle
    /\ EvaluatorIdle
    /\ NoQuery
    /\ NoRegistry
    /\ analysis = NoAnalysis

\* what no step of an execution changes
ExecutionFrame ==
    UNCHANGED <<workflow, startNodeId, validation, stepflow, importResult, reimported,
                evalVars, serverVars, queryVars, registryVars, analysis>>

\* the ids of the nodes execute starts from
startNodes(wf, startId) ==
    IF startId # <<>> THEN <<startId>>
    ELSE LET NoIncoming(n) == \A i \in 1..Len(wf.edges) : wf.edges[i].target # n.id
             first == SelectSeq(wf.nodes, NoIncoming)
         IN  [i \in 1..Len(first) |-> first[i].id]

\* nodeMap.get(nodeId) is a node
IsNode(wf, nodeId) == \E i \in 1..Len(wf.nodes) : wf.nodes[i].id = nodeId

\* the sources of the edges into nodeId
dependencies(wf, nodeId) ==
    {wf.edges[i].source : i \in {k \in 1..Len(wf.edges) : wf.edges[k].target = nodeId}}

depsSatisfiedAlways(wf, nodeId, executed) == TRUE

depsSatisfied(wf, nodeId, executed) == dependencies(wf, nodeId) \subseteq executed

\* the targets of the edges out of nodeId that are not executed, in the
\* order of the edges
nextNodes(wf, nodeId, executed) ==
    LET Out(e) == e.source = nodeId /\ e.target \notin executed
        out == SelectSeq(wf.edges, Out)
    IN  [i \in 1..Len(out) |-> out[i].target]

\* execution:start, up to the first turn of the loop of execute
StartExecution ==
    /\ pc = "execution:start"
    /\ IF workflow = NoWorkflow
       THEN /\ emitted' = emitted \cup {"execution:error"}
            /\ pc' = "done"
            /\ UNCHANGED <<stored, queue>>
       ELSE /\ stored' = Status("running", "")
            /\ queue' = startNodes(workflow, startNodeId)
            /\ pc' = "loop"
            /\ UNCHANGED emitted
    /\ UNCHANGED <<executedNodes, recorded, started, turns>>
    /\ ExecutionFrame

\* a turn of the loop for a node that is executed already, or for an id
\* that is not a node of the workflow: continue
Skip ==
    /\ pc = "loop"
    /\ queue # <<>>
    /\ Head(queue) \in executedNodes \/ ~IsNode(workflow, Head(queue))
    /\ queue' = Tail(queue)
    /\ turns' = 1 - turns
    /\ UNCHANGED <<pc, executedNodes, recorded, started, stored, emitted>>
    /\ ExecutionFrame

\* a turn of the loop for a node with a dependency that is not executed:
\* the node is put back in the queue
Requeue ==
    /\ pc = "loop"
    /\ queue # <<>>
    /\ Head(queue) \notin executedNodes
    /\ IsNode(workflow, Head(queue))
    /\ ~depsSatisfied(workflow, Head(queue), executedNodes)
    /\ queue' = Append(Tail(queue), Head(queue))
    /\ turns' = 1 - turns
    /\ UNCHANGED <<pc, executedNodes, recorded, started, stored, emitted>>
    /\ ExecutionFrame

\* a turn of the loop for a node whose dependencies are executed:
\* onNodeStart, and executeNode is awaited
NodeStart ==
    /\ pc = "loop"
    /\ queue # <<>>
    /\ Head(queue) \notin executedNodes
    /\ IsNode(workflow, Head(queue))
    /\ depsSatisfied(workflow, Head(queue), executedNodes)
    /\ started' = Append(started, Head(queue))
    /\ emitted' = emitted \cup {"execution:nodeStart"}
    /\ queue' = Tail(queue)
    /\ pc' = "awaiting"
    /\ turns' = 1 - turns
    /\ UNCHANGED <<executedNodes, recorded, stored>>
    /\ ExecutionFrame

\* the node awaited
Awaited == started[Len(started)]

\* executeNode has returned its trace: the rest of the turn
NodeComplete ==
    /\ pc = "awaiting"
    /\ recorded' = recorded \cup {Awaited}
    /\ executedNodes' = executedNodes \cup {Awaited}
    /\ emitted' = emitted \cup {"execution:nodeComplete"}
    /\ queue' = queue \o nextNodes(workflow, Awaited, executedNodes')
    /\ pc' = "loop"
    /\ UNCHANGED <<started, stored, turns>>
    /\ ExecutionFrame

\* the queue is empty: execute returns, and the handler of execution:start
\* goes on after its await
Complete ==
    /\ pc = "loop"
    /\ queue = <<>>
    /\ stored' = Status("success", "")
    /\ emitted' = emitted \cup {"execution:complete"}
    /\ pc' = "done"
    /\ turns' = 1 - turns
    /\ UNCHANGED <<queue, executedNodes, recorded, started>>
    /\ ExecutionFrame

\* executeNode of a node of this type awaits a call of the LLM adapter
CallsModel(type) == type \in {"prompt", "model_compare"}

\* the event loop is free to handle another event
EventLoopFree ==
    \/ pc = "done"
    \/ /\ pc = "awaiting"
       /\ \E i \in 1..Len(workflow.nodes) :
              workflow.nodes[i].id = Awaited /\ CallsModel(workflow.nodes[i].type)

\* execution:cancel for the execution, sent once
Cancel ==
    /\ EventLoopFree
    /\ stored.status # ""
    /\ "execution:cancelled" \notin emitted
    /\ stored' = Status("error", "Cancelled by user")
    /\ emitted' = emitted \cup {"execution:cancelled"}
    /\ UNCHANGED <<pc, queue, executedNodes, recorded, started, turns>>
    /\ ExecutionFrame

\* a turn of the queue loop
LoopTurn == Skip \/ Requeue \/ NodeStart \/ Complete

ExecutorNext == StartExecution \/ LoopTurn \/ NodeComplete \/ Cancel

ExecutorSpec == ExecutorInit /\ [][ExecutorNext]_vars

\* the handler is run, the loop goes on turning, and every call of
\* executeNode comes back
ExecutorLiveSpec ==
    /\ ExecutorSpec
    /\ WF_vars(StartExecution)
    /\ WF_vars(LoopTurn)
    /\ WF_vars(NodeComplete)


(***************************************************************************)
(* Vocabulary of the properties.                                           *)
(***************************************************************************)
Validated == pc \in {"validated", "failed", "exported", "exportChecked", "roundTripped"}

Exported == pc \in {"exported", "exportChecked", "roundTripped"}

ImportChecked == pc \in {"exportChecked", "roundTripped", "importChecked", "imported"}

Reconstructed == pc \in {"roundTripped", "imported"}

NodeIdsOf(wf) == {wf.nodes[i].id : i \in 1..Len(wf.nodes)}

DistinctNodeIds(wf) ==
    \A i, j \in 1..Len(wf.nodes) : i # j => wf.nodes[i].id # wf.nodes[j].id

StepIdsOf(doc) == {doc.steps[i].id : i \in 1..Len(doc.steps)}

Successors(wf, S) ==
    {wf.edges[i].target : i \in {k \in 1..Len(wf.edges) : wf.edges[k].source \in S}}

RECURSIVE ReachClosure(_, _)
ReachClosure(wf, S) ==
    IF Successors(wf, S) \subseteq S THEN S ELSE ReachClosure(wf, S \cup Successors(wf, S))

\* id lies on a directed cycle: it is reachable from itself by one edge or more
OnCycle(wf, id) == id \in ReachClosure(wf, Successors(wf, {id}))

HasDirectedCycle(wf) == \E id \in NodeIdsOf(wf) : OnCycle(wf, id)

CycleErrorsOf(result) ==
    {result.errors[i].node : i \in {k \in 1..Len(result.errors) :
                                       result.errors[k].kind = "cycle"}}

\* the step ids named in an input: native $step references and {{$step.X}} markers
NativeRefs(input) ==
    {input[i].val.id : i \in {k \in 1..Len(input) : input[k].val.tag = "$step"}}

MarkerRefs(input) ==
    UNION {{input[i].val.toks[j].v :
               j \in {m \in 1..Len(input[i].val.toks) :
                         input[i].val.toks[m].k = "stepmarker"}} :
           i \in {k \in 1..Len(input) : input[k].val.tag = "$template"}}

\* the ids referenced from the inputs or the output of doc that no step bears
MissingRefs(doc) ==
    (UNION {NativeRefs(doc.steps[i].input) : i \in 1..Len(doc.steps)}
        \cup NativeRefs(doc.output)) \ StepIdsOf(doc)

HasEdge(wf, source, target) ==
    \E i \in 1..Len(wf.edges) : wf.edges[i] = Edge(source, target)

\* the text \{{not a ref\}}
EscapedNotARef == <<Tok("bs"), Tok("open"), Txt("not a ref"), Tok("bs"), Tok("close")>>

(***************************************************************************)
(* Properties.                                                             *)
(***************************************************************************)

\* C1: distinct node ids compile to pairwise distinct step ids (the id mapping
\* is injective).
C1_DistinctStepIds ==
    (Exported /\ DistinctNodeIds(workflow)) =>
        \A i, j \in 1..Len(stepflow.steps) :
            i # j => stepflow.steps[i].id # stepflow.steps[j].id

\* C2: validateForStepflow reports a cycle error exactly when the edges hold a
\* directed cycle (a self-loop included).
C2_CycleErrorIffCycle ==
    Validated => ((CycleErrorsOf(validation) # {}) <=> HasDirectedCycle(workflow))

\* C2 witness: a graph with a cycle through two nodes or more, and no self-loop,
\* was validated and got the cycle error.
C2_Witness ==
    /\ Validated
    /\ HasDirectedCycle(workflow)
    /\ \A i \in 1..Len(workflow.edges) : workflow.edges[i].source # workflow.edges[i].target
    /\ CycleErrorsOf(validation) # {}

\* C3: in the document compiled from an acyclic graph, every step reference in
\* the input of step i (native or template marker) names a step emitted before i.
C3_ReferencesPointBackward ==
    (Exported /\ ~HasDirectedCycle(workflow)) =>
        \A i \in 1..Len(stepflow.steps) :
            \A ref \in NativeRefs(stepflow.steps[i].input)
                          \cup MarkerRefs(stepflow.steps[i].input) :
                \E j \in 1..(i - 1) : stepflow.steps[j].id = ref

\* C4: the document compiled from a graph that validateForStepflow finds valid is
\* accepted by validateStepflowImport.
C4_ExportAcceptedByImport ==
    (pc \in {"exportChecked", "roundTripped"} /\ validation.valid) => importResult.valid

\* C5: every step id of a compiled document matches ^[a-zA-Z_][a-zA-Z0-9_]*$.
C5_StepIdsMatchGrammar ==
    Exported => \A i \in 1..Len(stepflow.steps) : MatchesIdGrammar(stepflow.steps[i].id)

\* C6: compiling a valid acyclic graph and reconstructing the document gives back
\* as many nodes, as many edges, and every original edge under the original ids.
C6_RoundTripTopology ==
    (pc = "roundTripped" /\ validation.valid /\ ~HasDirectedCycle(workflow)) =>
        /\ Len(reimported.nodes) = Len(workflow.nodes)
        /\ Len(reimported.edges) = Len(workflow.edges)
        /\ \A i \in 1..Len(workflow.edges) :
               HasEdge(reimported, workflow.edges[i].source, workflow.edges[i].target)

\* C7: the node named in a cycle error lies on a directed cycle.
C7_CycleErrorNamesCycleNode ==
    Validated => \A id \in CycleErrorsOf(validation) : OnCycle(workflow, id)

\* C8: a structurally valid document with a $step reference to a missing step is
\* rejected by validateStepflowImport, with errors naming every missing id.
C8_MissingRefsRejected ==
    (ImportChecked /\ stepflowWorkflowSchema(stepflow) = <<>> /\ MissingRefs(stepflow) # {}) =>
        /\ ~importResult.valid
        /\ \A id \in MissingRefs(stepflow) :
               \E k \in 1..Len(importResult.errors) : id \in importResult.errors[k].names

\* C9: a {{$step.X}} marker in a $template of step T, X being a step of the
\* document, gives the reconstructed graph an edge from X's node to T's node.
C9_TemplateMarkerEdges ==
    Reconstructed =>
        \A i \in 1..Len(stepflow.steps) :
            \A x \in MarkerRefs(stepflow.steps[i].input) \cap StepIdsOf(stepflow) :
                HasEdge(reimported, StripLeadingUnderscore(x),
                        StripLeadingUnderscore(stepflow.steps[i].id))

\* C10: a prompt node whose user prompt is \{{not a ref\}} compiles to a step
\* whose user message content is {$literal: "not a ref"}.
C10_EscapedPromptIsLiteral ==
    Exported =>
        \A n \in 1..Len(workflow.nodes) :
            (workflow.nodes[n].type = "prompt"
                 /\ workflow.nodes[n].config.userPrompt = EscapedNotARef) =>
                \A i \in 1..Len(stepflow.steps) :
                    stepflow.steps[i].id = sanitizeId(workflow.nodes[n].id) =>
                        MessageContent(stepflow.steps[i].input, "user")
                            = <<Literal(<<Txt("not a ref")>>)>>

\* an object that holds the key $literal and nothing else
IsLiteral(value) ==
    value.t = "object" /\ Len(value.items) = 1 /\ value.items[1].k = "$literal"

\* value is made of primitives and $literal wrappers, nested in arrays and in
\* objects that hold no expression key
RECURSIVE LiteralsOnly(_)
LiteralsOnly(value) ==
    CASE value.t \notin {"array", "object"} -> TRUE
      [] IsLiteral(value) -> TRUE
      [] OTHER -> /\ \A i \in 1..Len(value.items) :
                        /\ value.items[i].k \notin {"$step", "$input", "$variable",
                                                    "$template", "$literal", "$from"}
                        /\ LiteralsOnly(value.items[i].val)

RECURSIVE HoldsLiteral(_)
HoldsLiteral(value) ==
    \/ IsLiteral(value)
    \/ /\ value.t \in {"array", "object"}
       /\ \E i \in 1..Len(value.items) : HoldsLiteral(value.items[i].val)

\* value with every $literal wrapper replaced by what it wraps, untouched
RECURSIVE Unwrapped(_)
Unwrapped(value) ==
    CASE value.t \notin {"array", "object"} -> value
      [] IsLiteral(value) -> value.items[1].val
      [] OTHER -> [value EXCEPT !.items =
                      [i \in 1..Len(value.items) |->
                          Field(value.items[i].k, Unwrapped(value.items[i].val))]]

\* C11: evaluating a $literal wrapper, at the top level or nested inside
\* arrays and plain objects, returns the wrapped value unchanged, reads no
\* step output, input or variable even when the wrapped value contains
\* objects shaped like references, and never throws.
C11_LiteralVerbatim ==
    (pc = "evaluated" /\ LiteralsOnly(expression) /\ HoldsLiteral(expression))
        => /\ evaluation.thrown = ""
           /\ evaluation.lookups = {}
           /\ evaluation.value = Unwrapped(expression)

\* a wrapper around a reference to a step that has no output, nested in an
\* array inside an object, has been evaluated
C11_Witness ==
    /\ pc = "evaluated"
    /\ expression = VObject(<<Field("a",
            VArray(<<VObject(<<Field("$literal",
                         VObject(<<Field("$step", VString("ghost"))>>))>>),
                     VString("z")>>))>>)
    /\ executionContext = RunningContext
    /\ evaluation.thrown = ""

\* the positions of calls that hold a call of a function of names
CallsOf(names) == {i \in 1..Len(calls) : calls[i] \in names}

Compilers == {"convertToStepflow", "toFlowBuilderPython"}

\* C12: in every request that compiles a stored graph (YAML, JSON and Python
\* export, preview, validate, run) validateForStepflow is evaluated before
\* the compiler is invoked, and the compiler is invoked only if the
\* validation found the graph valid.
C12_ValidatedBeforeCompiled ==
    (pc = "responded" /\ request.route \in ExportRoutes /\ CallsOf(Compilers) # {})
        => /\ CallsOf({"validateForStepflow"}) # {}
           /\ Min(CallsOf({"validateForStepflow"})) < Min(CallsOf(Compilers))
           /\ validation.valid

\* C13: on every import request, JSON or YAML, the workflow is inserted
\* into the database only after the schema validation has found the
\* document valid; an invalid document leaves the database unchanged and is
\* answered with the validation errors.
C13_ImportValidatedBeforeInsert ==
    (pc = "responded" /\ request.route \in ImportRoutes)
        => /\ db # <<>> =>
                 /\ CallsOf({"validateStepflowImport"}) # {}
                 /\ Min(CallsOf({"validateStepflowImport"})) < Min(CallsOf({"createWorkflow"}))
                 /\ importResult.valid
           /\ (request \in ImportRequests /\ ~validateStepflowImport(stepflow).valid) =>
                 /\ db = <<>>
                 /\ response.status = 400
                 /\ response.details = validateStepflowImport(stepflow).errors

\* C14: the validators return a structured {valid, errors} result and never
\* throw, whatever the input: a graph with a prompt node that has no config
\* object, a malformed document.
C14_ValidatorsNeverThrow ==
    /\ validation.thrown = ""
    /\ importResult.thrown = ""

\* the nodes of wf whose type has no converter
Unconvertible(wf) ==
    {i \in 1..Len(wf.nodes) : wf.nodes[i].type \notin NodeTypes}

\* C15: compiling a graph that holds a node whose type has no converter fails
\* with an error that names the id and the type of the node, and returns no
\* document.
C15_UnsupportedTypeNamed ==
    (pc \in {"failed", "exported"} /\ Unconvertible(workflow) # {}) =>
        /\ stepflow.thrown # ""
        /\ stepflow.steps = <<>>
        /\ stepflow.thrown = "Unsupported node type" =>
               \E i \in Unconvertible(workflow) :
                   /\ <<workflow.nodes[i].type>> \in stepflow.names
                   /\ workflow.nodes[i].id \in stepflow.names

\* C16: a document with pairwise distinct step ids is reconstructed to a graph
\* with pairwise distinct node ids, one node per step.
C16_DistinctNodeIds ==
    (Reconstructed /\ Cardinality(StepIdsOf(stepflow)) = Len(stepflow.steps)) =>
        /\ Len(reimported.nodes) = Len(stepflow.steps)
        /\ DistinctNodeIds(reimported)

\* C17: round trip preserves prompt text: the node reconstructed from the step
\* of a prompt node has the systemPrompt and the userPrompt of that node.
C17_RoundTripPromptText ==
    (pc = "roundTripped" /\ validation.valid /\ DistinctNodeIds(workflow)) =>
        \A n \in 1..Len(workflow.nodes) :
            workflow.nodes[n].type = "prompt" =>
                \A m \in 1..Len(reimported.nodes) :
                    (/\ reimported.nodes[m].type = "prompt"
                     /\ reimported.nodes[m].id =
                            StripLeadingUnderscore(sanitizeId(workflow.nodes[n].id))
                     /\ Cardinality({k \in 1..Len(workflow.nodes) :
                            sanitizeId(workflow.nodes[k].id)
                                = sanitizeId(workflow.nodes[n].id)}) = 1) =>
                        /\ reimported.nodes[m].config.systemPrompt
                               = workflow.nodes[n].config.systemPrompt
                        /\ reimported.nodes[m].config.userPrompt
                               = workflow.nodes[n].config.userPrompt

\* the ids of the nodes of type input
InputTypedIds(wf) ==
    {wf.nodes[i].id : i \in {k \in 1..Len(wf.nodes) : wf.nodes[k].type = "input"}}

\* C18: the input schema of the compiled document has exactly one property
\* for each node of type input and none for a node of another type, with or
\* without incoming edges.
C18_SchemaOfInputNodes ==
    (Exported /\ DistinctNodeIds(workflow)) =>
        /\ {stepflow.schemaProps[i] : i \in 1..Len(stepflow.schemaProps)}
               = InputTypedIds(workflow)
        /\ Len(stepflow.schemaProps) = Cardinality(InputTypedIds(workflow))

\* the text between the braces when template, trimmed, is one pair of braces
\* around one reference (input, or a node output with or without a field),
\* <<>> otherwise
SingleReference(template) ==
    LET t == Trim(template)
    IN  IF Len(t) >= 3 /\ t[1].k = "open" /\ t[Len(t)].k = "close"
        THEN LET expr == Trim(SubSeq(t, 2, Len(t) - 1))
             IN  IF Len(expr) = 1 /\ (expr[1] = Txt("input") \/ expr[1].k = "noderef")
                 THEN expr
                 ELSE <<>>
        ELSE <<>>

\* the native expression of a reference
NativeOf(ref) ==
    IF ref = Txt("input") THEN InputRef
    ELSE IF ref.f = "" THEN StepRef(sanitizeId(ref.v))
    ELSE StepPath(sanitizeId(ref.v), <<Txt(ref.f)>>)

\* C19: a template that, trimmed, is exactly one reference (the input, a node
\* output for any node id, a node output with a field path) is interpolated
\* to the native expression of the reference, never to a $template.
C19_SingleReferenceNative ==
    Exported =>
        \A n \in 1..Len(workflow.nodes) :
            (/\ workflow.nodes[n].type = "prompt"
             /\ SingleReference(workflow.nodes[n].config.userPrompt) # <<>>) =>
                interpolateTemplate(workflow.nodes[n].config.userPrompt,
                                    IncomingEdges(workflow, workflow.nodes[n].id))
                    = NativeOf(SingleReference(workflow.nodes[n].config.userPrompt)[1])

\* Input(in1) -> Prompt(p1) -> Output(out1), the nodes and the edges in any
\* order
IsEndToEnd(wf) ==
    /\ {wf.nodes[i] : i \in 1..Len(wf.nodes)} = EndToEndNodes
    /\ Len(wf.nodes) = 3
    /\ {wf.edges[i] : i \in 1..Len(wf.edges)}
          = {Edge(<<"i", "n", "1">>, <<"p", "1">>), Edge(<<"p", "1">>, <<"o", "u", "t", "1">>)}
    /\ Len(wf.edges) = 2

\* the values of the input of the step id of doc at key
InputAt(doc, id, key) ==
    UNION {{doc.steps[i].input[j].val :
               j \in {k \in 1..Len(doc.steps[i].input) : doc.steps[i].input[k].key = key}} :
           i \in {k \in 1..Len(doc.steps) : doc.steps[k].id = id}}

Queried == pc = "queried"

\* the query is $.arr[start:end:step] on an object whose arr is an array
SliceQuery ==
    /\ Len(queryPath) = 2
    /\ queryPath[2].form = "slice"
    /\ Get(queryData, "arr").t = "array"

SliceStart == PartOrUndefined(queryPath[2].parts, 1)

SliceEnd == PartOrUndefined(queryPath[2].parts, 2)

SliceStep == OrDefault(PartOrUndefined(queryPath[2].parts, 3), 1)

\* a bound of a Python slice of a sequence of the given length: a negative
\* bound counts from the end, and the bound is clamped to lo..hi
Clamped(bound, length, lo, hi) ==
    IF bound < 0
    THEN (IF bound + length < lo THEN lo ELSE bound + length)
    ELSE (IF bound > hi THEN hi ELSE bound)

\* the indices of Python's range(i, end, step), 0-based
RECURSIVE PyRange(_, _, _)
PyRange(i, end, step) ==
    IF (step > 0 /\ i >= end) \/ (step < 0 /\ i <= end) THEN <<>>
    ELSE <<i>> \o PyRange(i + step, end, step)

\* the indices of Python's elements[start:end:step], step # 0
PyIndices(length, start, end, step) ==
    IF step > 0
    THEN PyRange(IF start = <<>> THEN 0 ELSE Clamped(start[1], length, 0, length),
                 IF end = <<>> THEN length ELSE Clamped(end[1], length, 0, length),
                 step)
    ELSE PyRange(IF start = <<>> THEN length - 1
                 ELSE Clamped(start[1], length, 0 - 1, length - 1),
                 IF end = <<>> THEN 0 - 1
                 ELSE Clamped(end[1], length, 0 - 1, length - 1),
                 step)

PySlice(elements, start, end, step) ==
    [k \in 1..Len(PyIndices(Len(elements), start, end, step)) |->
        elements[PyIndices(Len(elements), start, end, step)[k] + 1]]

\* C21: a slice [start:end:step] with integer or omitted bounds and a step
\* other than 0, applied to an array, returns exactly what Python's
\* arr[start:end:step] is, negative bounds and negative steps included.
C21_SliceIsPythonSlice ==
    (Queried /\ SliceQuery /\ SliceStep # 0)
        => queried = Outcome("returned",
                             VArray(PySlice(Elements(Get(queryData, "arr")),
                                            SliceStart, SliceEnd, SliceStep)),
                             {})
\* C22: evaluateJSONPath throws for no data and no path: an index out of
\* range, a missing field, a null or primitive value on the way and a null
\* element of a filtered array give undefined or are skipped.
C22_QueryNeverThrows == Queried => queried.outcome # "thrown"

\* C23: a filter [?(...)] only compares fields with literals: no text of
\* the predicate and no value of a data field is executed as code, and the
\* evaluation has no effect besides the boolean it yields.
C23_FilterExecutesNothing == Queried => queried.effects = {}

\* C30: evaluateJSONPath returns or throws for every data and every path, a
\* slice whose step is 0 or negative included.
C30_QueryTerminates == Queried => queried.outcome # "diverged"

(***************************************************************************)
(* The component registry                                                  *)
(***************************************************************************)
\* getComponent(path) returns an entry
Registered(path) == getComponent(path) # NoComponent

\* C24: the catalog of the registry is append-only: whatever is called
\* (registerComponent, registerPlugin, registerMCPServer, clear, queries),
\* getComponent of a path that is registered keeps returning the same entry;
\* no operation removes or replaces an entry.
C24_CatalogAppendOnly ==
    [][\A path \in ComponentPaths :
          Registered(path) => getComponent(path)' = getComponent(path)]_vars
(***************************************************************************)
(* The traversal of convertToStepflow                                      *)
(***************************************************************************)
\* convertToStepflow has been applied to the workflow
Compiled == pc \in {"exported", "failed"}

\* processNode called itself without end, until the engine's call stack was
\* exhausted
RecursedWithoutBound == stepflow.thrown = "RangeError"

\* C25: convertToStepflow terminates on every finite graph, graphs with
\* cycles and self-loops included: its traversal never recurses or loops
\* without bound, whether or not the cycle check was applied before.
C25_TraversalBounded == Compiled => ~RecursedWithoutBound
(***************************************************************************)
(* The execution of a workflow                                             *)
(***************************************************************************)
\* C26: WorkflowExecutor.execute eventually returns for every finite
\* workflow and every startNodeId: the queue loop does not go on for ever
\* when a node in the queue has a dependency that is never executed (a node
\* on a cycle, a startNodeId with incoming edges, an edge whose source is
\* no node).
C26_ExecuteReturns == <>(pc = "done")

\* node k of started has an incoming edge
HasDependency(k) ==
    \E i \in 1..Len(workflow.edges) : workflow.edges[i].target = started[k]

\* C27: a node is executed at most once in an execution, and it is started
\* only after every source of an edge into it has finished and has its
\* output recorded in the context.
C27_OnceAfterDependencies ==
    /\ \A j, k \in 1..Len(started) : j # k => started[j] # started[k]
    /\ \A k \in 1..Len(started) :
          \A source \in dependencies(workflow, started[k]) :
              /\ \E j \in 1..(k - 1) : started[j] = source
              /\ source \in executedNodes
              /\ source \in recorded

C27_Witness ==
    /\ pc = "done"
    /\ Len(started) = 3
    /\ HasDependency(2)
    /\ HasDependency(3)

\* execution:cancel has been handled
Cancelled == "execution:cancelled" \in emitted

\* C28: once execution:cancel has been handled, the stored status stays
\* the error status of the cancellation: the handler of execution:start
\* that is still running neither overwrites it with success nor emits
\* execution:complete, whatever the interleaving.
C28_CancelledStaysCancelled ==
    [][Cancelled =>
          /\ stored' = Status("error", "Cancelled by user")
          /\ "execution:complete" \in emitted' => "execution:complete" \in emitted]_vars
(***************************************************************************)
(* Static analysis                                                         *)
(***************************************************************************)
\* C29: the static analysis does not treat what a $literal wraps as an
\* expression: an object of the shape of a reference inside a literal is not
\* returned by extractStepReferences, is not flagged by validateExpression
\* and does not make validateStepflowImport report a missing step.
C29_LiteralNotAnalyzed ==
    (pc = "analyzed" /\ LiteralsOnly(expression))
        => /\ analysis.references = {}
           /\ analysis.errors = {}
           /\ analysis.missing = {}
====
